---- MODULE Spec2Model ----
(***************************************************************************)
(* Banking document pipeline: the KYC/AML validator (services/validator.py) *)
(* and the per-document request handler (routers/documents.py).             *)
(*                                                                          *)
(* Conventions                                                              *)
(*   - a Python str is a sequence of one-character strings;                 *)
(*   - Optional[str] is <<>> (None) or <<s>> (the str s);                   *)
(*   - confidences and risk scores are counted in hundredths (0.80 = 80);   *)
(*   - a date is the tuple <<year, month, day>>.                            *)
(***************************************************************************)
EXTENDS Integers, Sequences, FiniteSets, TLC

\* ------------------------------------------------------------------------
\* Bounds of the model
\* ------------------------------------------------------------------------
MaxExtra == 1

\* ------------------------------------------------------------------------
\* Python str operations
\* ------------------------------------------------------------------------
UpperAlpha ==
  <<"A", "B", "C", "D", "E", "F", "G", "H", "I", "J", "K", "L", "M",
    "N", "O", "P", "Q", "R", "S", "T", "U", "V", "W", "X", "Y", "Z">>

LowerAlpha ==
  <<"a", "b", "c", "d", "e", "f", "g", "h", "i", "j", "k", "l", "m",
    "n", "o", "p", "q", "r", "s", "t", "u", "v", "w", "x", "y", "z">>

Whitespace == {" ", "\t", "\n"}

Digits == <<"0", "1", "2", "3", "4", "5", "6", "7", "8", "9">>

LowerChar(c) ==
  IF \E i \in 1..26 : UpperAlpha[i] = c
    THEN LowerAlpha[CHOOSE i \in 1..26 : UpperAlpha[i] = c]
    ELSE c

\* str.lower()
Lower(s) == [i \in 1..Len(s) |-> LowerChar(s[i])]

\* str.strip()
Strip(s) ==
  LET keep == {i \in 1..Len(s) : s[i] \notin Whitespace}
  IN IF keep = {} THEN <<>>
     ELSE LET lo == CHOOSE i \in keep : \A j \in keep : i <= j
              hi == CHOOSE i \in keep : \A j \in keep : j <= i
          IN SubSeq(s, lo, hi)

\* str.replace(c, "") for a one-character c
Remove(s, c) == SelectSeq(s, LAMBDA x : x # c)

\* the Python test  sub in s  on two str values
Contains(s, sub) ==
  \E i \in 0..(Len(s) - Len(sub)) :
     \A j \in 1..Len(sub) : s[i + j] = sub[j]

IsDigit(c) == \E i \in 1..10 : Digits[i] = c

DigitVal(c) == (CHOOSE i \in 1..10 : Digits[i] = c) - 1

RECURSIVE ParseInt(_)
ParseInt(s) ==
  IF s = <<>> THEN 0
  ELSE 10 * ParseInt(SubSeq(s, 1, Len(s) - 1)) + DigitVal(s[Len(s)])

AllDigits(s) == \A i \in 1..Len(s) : IsDigit(s[i])

\* str.split(sep) for a one-character separator
RECURSIVE Split(_, _)
Split(s, sep) ==
  IF \A i \in 1..Len(s) : s[i] # sep THEN <<s>>
  ELSE LET k == CHOOSE i \in 1..Len(s) :
                   s[i] = sep /\ \A j \in 1..(i - 1) : s[j] # sep
       IN <<SubSeq(s, 1, k - 1)>> \o Split(SubSeq(s, k + 1, Len(s)), sep)

\* separator.join(xs), kept as the sequence of its pieces
RECURSIVE Join(_, _)
Join(sep, xs) ==
  IF Len(xs) <= 1 THEN xs
  ELSE <<xs[1], sep>> \o Join(sep, Tail(xs))

\* ------------------------------------------------------------------------
\* datetime.strptime(value, fmt).date() for the three formats tried
\* ------------------------------------------------------------------------
ValueError == <<>>

IsLeap(y) == (y % 4 = 0 /\ y % 100 # 0) \/ y % 400 = 0

DaysInMonth(y, m) ==
  IF m \in {4, 6, 9, 11} THEN 30
  ELSE IF m = 2 THEN (IF IsLeap(y) THEN 29 ELSE 28)
  ELSE 31

\* a format is its separator and the order of its three directives
DATE_FORMATS ==
  << [sep |-> "-", order |-> <<"Y", "m", "d">>],
     [sep |-> "/", order |-> <<"d", "m", "Y">>],
     [sep |-> "/", order |-> <<"m", "d", "Y">>] >>

\* the text a directive accepts: %Y four digits; %m, %d one or two digits
\* without a leading zero on a one-digit-only value (%d also " 1".." 9")
DirectiveMatches(d, p) ==
  IF d = "Y" THEN Len(p) = 4 /\ AllDigits(p)
  ELSE IF d = "m"
    THEN Len(p) \in {1, 2} /\ AllDigits(p) /\ ParseInt(p) \in 1..12
  ELSE \/ Len(p) \in {1, 2} /\ AllDigits(p) /\ ParseInt(p) \in 1..31
       \/ Len(p) = 2 /\ p[1] = " " /\ IsDigit(p[2]) /\ DigitVal(p[2]) >= 1

DirectiveValue(d, p) ==
  IF d = "d" /\ Len(p) = 2 /\ p[1] = " " THEN DigitVal(p[2]) ELSE ParseInt(p)

strptime(value, fmt) ==
  LET parts == Split(value, fmt.sep)
  IN IF Len(parts) # 3 THEN ValueError
     ELSE IF \E i \in 1..3 : ~DirectiveMatches(fmt.order[i], parts[i])
       THEN ValueError
     ELSE LET at(d) == DirectiveValue(d,
                          parts[CHOOSE i \in 1..3 : fmt.order[i] = d])
              y == at("Y")
              m == at("m")
              dd == at("d")
          IN IF y >= 1 /\ dd <= DaysInMonth(y, m) THEN <<y, m, dd>>
             ELSE ValueError

\* date < date
DateLess(a, b) ==
  \/ a[1] < b[1]
  \/ a[1] = b[1] /\ a[2] < b[2]
  \/ a[1] = b[1] /\ a[2] = b[2] /\ a[3] < b[3]

\* ------------------------------------------------------------------------
\* Data model (models/schemas.py, models/enums.py)
\* ------------------------------------------------------------------------
None == <<>>

Some(s) == <<s>>

\* Python truthiness of an Optional[str]: None and "" are falsy
Truthy(value) == value # None /\ value[1] # <<>>

ExtractedField(name, value, confidence) ==
  [field_name |-> name, value |-> value, confidence |-> confidence]

ValidationStatus == {"passed", "failed", "needs_manual_review", "pending"}

\* one entry of checks_passed / checks_failed: the literal part of the
\* f-string and the interpolated part
Msg(text, arg) == [text |-> text, arg |-> arg]

\* ------------------------------------------------------------------------
\* services/validator.py : module constants
\* ------------------------------------------------------------------------
REQUIRED_KYC_FIELDS ==
  <<"customer_name", "date_of_birth", "nationality", "source_of_funds",
    "occupation">>

SANCTIONS_KEYWORDS ==
  << <<"s", "a", "n", "c", "t", "i", "o", "n", "e", "d", "_",
       "e", "n", "t", "i", "t", "y", "_", "1">>,
     <<"s", "a", "n", "c", "t", "i", "o", "n", "e", "d", "_",
       "e", "n", "t", "i", "t", "y", "_", "2">> >>

FATF_HIGH_RISK ==
  << <<"I", "r", "a", "n">>,
     <<"N", "o", "r", "t", "h", " ", "K", "o", "r", "e", "a">>,
     <<"M", "y", "a", "n", "m", "a", "r">> >>

FATF_INCREASED_MONITORING ==
  << <<"S", "y", "r", "i", "a">>,
     <<"Y", "e", "m", "e", "n">>,
     <<"S", "o", "u", "t", "h", " ", "S", "u", "d", "a", "n">>,
     <<"L", "i", "b", "y", "a">>,
     <<"H", "a", "i", "t", "i">>,
     <<"N", "i", "g", "e", "r", "i", "a">>,
     <<"P", "h", "i", "l", "i", "p", "p", "i", "n", "e", "s">> >>

PEP_TRUTHY ==
  { <<"y", "e", "s">>, <<"t", "r", "u", "e">>, <<"1">> }

\* x in list
InList(x, list) == \E i \in 1..Len(list) : list[i] = x

\* risk_score increments of validate_kyc, in hundredths
DELTA_COMPLETENESS == 15

DELTA_ID_VALIDITY == 10

\* mutant of the sanctions increment: the increment of an expired ID is used
DELTA_SANCTIONS_AsIdValidity == DELTA_ID_VALIDITY

DELTA_SANCTIONS == 50

DELTA_PEP == 25

\* mutant of the jurisdiction increment: the PEP increment is used
DELTA_JURISDICTION_AsPep == DELTA_PEP

DELTA_JURISDICTION == 30

DELTA_CONFIDENCE == 10

\* f.confidence < 0.80
CRITICAL_CONFIDENCE == 80

\* risk_score >= 0.5
REJECT_THRESHOLD == 50

\* min(risk_score, 1.0)
RISK_CAP == 100

\* ------------------------------------------------------------------------
\* services/validator.py : field map and the six checks
\* ------------------------------------------------------------------------
\* {f.field_name: f for f in extracted_fields}: the last field of a name wins
FieldMap(fields) ==
  LET names == {fields[i].field_name : i \in 1..Len(fields)}
      last(n) == CHOOSE i \in 1..Len(fields) :
                   /\ fields[i].field_name = n
                   /\ \A j \in 1..Len(fields) :
                        fields[j].field_name = n => j <= i
  IN [n \in names |-> fields[last(n)]]

\* field_map.get(name): <<>> for None, <<f>> for the field
Get(field_map, name) ==
  IF name \in DOMAIN field_map THEN <<field_map[name]>> ELSE <<>>

\* a or b  on two Optional[ExtractedField] (a model instance is truthy)
OrElse(a, b) == IF a # <<>> THEN a ELSE b

\* mutant of  expiry < date.today() : an ID expiring today is rejected
Expired_InclusiveToday(expiry, day) == ~DateLess(day, expiry)

\* line 167: expiry < date.today()
Expired(expiry, day) == DateLess(expiry, day)

\* mutant of the PEP test: the casing of the value is not folded
PepTruthy_CaseSensitive(value) == value \in PEP_TRUTHY

\* line 228: pep_field.value.lower() in ("yes", "true", "1")
PepTruthy(value) == Lower(value) \in PEP_TRUTHY

\* mutant of the confidence test: a confidence equal to 0.80 counts as low
BelowCritical_Inclusive(confidence) == confidence <= CRITICAL_CONFIDENCE

\* line 244: f.confidence < 0.80
BelowCritical(confidence) == confidence < CRITICAL_CONFIDENCE

\* mutant of the completeness test: only the presence of the key is tested
_check_field_completeness_KeysOnly(field_map, passed, failed) ==
  LET IsMissing(field) == field \notin DOMAIN field_map
      missing == SelectSeq(REQUIRED_KYC_FIELDS, IsMissing)
  IN IF missing # <<>>
       THEN [ok |-> FALSE, passed |-> passed,
             failed |-> Append(failed,
                          Msg("Missing required fields: ", Join(", ", missing)))]
       ELSE [ok |-> TRUE,
             passed |-> Append(passed,
                          Msg("All required KYC fields present", <<>>)),
             failed |-> failed]

_check_field_completeness(field_map, passed, failed) ==
  LET IsMissing(field) ==
        field \notin DOMAIN field_map \/ ~Truthy(field_map[field].value)
      missing == SelectSeq(REQUIRED_KYC_FIELDS, IsMissing)
  IN IF missing # <<>>
       THEN [ok |-> FALSE, passed |-> passed,
             failed |-> Append(failed,
                          Msg("Missing required fields: ", Join(", ", missing)))]
       ELSE [ok |-> TRUE,
             passed |-> Append(passed,
                          Msg("All required KYC fields present", <<>>)),
             failed |-> failed]

\* an expiry value that matches no format is taken for an expired document
_check_id_validity_FailsUnparsed(field_map, passed, failed, today) ==
  LET expiry_field == OrElse(Get(field_map, "expiry_date"),
                             Get(field_map, "id_expiry"))
  IN IF expiry_field # <<>> /\ Truthy(expiry_field[1].value)
       THEN LET value == expiry_field[1].value[1]
                parsing == {i \in 1..Len(DATE_FORMATS) :
                              strptime(value, DATE_FORMATS[i]) # ValueError}
            IN IF parsing = {}
                    \/ Expired(strptime(value, DATE_FORMATS[
                         CHOOSE i \in parsing : \A j \in parsing : i <= j]),
                         today)
                 THEN [ok |-> FALSE, passed |-> passed,
                       failed |-> Append(failed,
                         Msg("ID document expired: ", value))]
                 ELSE [ok |-> TRUE,
                       passed |-> Append(passed,
                         Msg("ID document is valid and not expired", <<>>)),
                       failed |-> failed]
       ELSE [ok |-> TRUE,
             passed |-> Append(passed,
               Msg("ID expiry check skipped - no expiry field found", <<>>)),
             failed |-> failed]

\* lines 156-182
_check_id_validity(field_map, passed, failed, today) ==
  LET expiry_field == OrElse(Get(field_map, "expiry_date"),
                             Get(field_map, "id_expiry"))
  IN IF expiry_field # <<>> /\ Truthy(expiry_field[1].value)
       THEN LET value == expiry_field[1].value[1]
                parsing == {i \in 1..Len(DATE_FORMATS) :
                              strptime(value, DATE_FORMATS[i]) # ValueError}
            IN IF parsing # {}
                 THEN LET first == CHOOSE i \in parsing :
                                      \A j \in parsing : i <= j
                          expiry == strptime(value, DATE_FORMATS[first])
                      IN IF Expired(expiry, today)
                           THEN [ok |-> FALSE, passed |-> passed,
                                 failed |-> Append(failed,
                                   Msg("ID document expired: ", value))]
                           ELSE [ok |-> TRUE,
                                 passed |-> Append(passed,
                                   Msg("ID document is valid and not expired",
                                       <<>>)),
                                 failed |-> failed]
                 ELSE [ok |-> TRUE,
                       passed |-> Append(passed,
                         Msg("ID expiry date format unrecognized - manual check needed",
                             <<>>)),
                       failed |-> failed]
       ELSE [ok |-> TRUE,
             passed |-> Append(passed,
               Msg("ID expiry check skipped - no expiry field found", <<>>)),
             failed |-> failed]

\* mutant of the sanctions check: the  return False  after a hit is missing,
\* so the call goes on to record the screening as clear
_check_sanctions_NoReturn(field_map, passed, failed, flags) ==
  LET name_field == OrElse(Get(field_map, "customer_name"),
                           Get(field_map, "full_name"))
  IN IF name_field # <<>> /\ Truthy(name_field[1].value)
       THEN LET value == name_field[1].value[1]
                hit == \E i \in 1..Len(SANCTIONS_KEYWORDS) :
                         Contains(Lower(value), Lower(SANCTIONS_KEYWORDS[i]))
            IN [ok |-> TRUE,
                passed |-> Append(passed, Msg("Sanctions screening: CLEAR", <<>>)),
                failed |-> IF hit
                             THEN Append(failed, Msg("SANCTIONS MATCH: ", value))
                             ELSE failed,
                flags |-> IF hit THEN Append(flags, "SANCTIONS_HIT") ELSE flags]
       ELSE [ok |-> TRUE,
             passed |-> Append(passed,
               Msg("Sanctions screening skipped - no name found", <<>>)),
             failed |-> failed, flags |-> flags]

_check_sanctions(field_map, passed, failed, flags) ==
  LET name_field == OrElse(Get(field_map, "customer_name"),
                           Get(field_map, "full_name"))
  IN IF name_field # <<>> /\ Truthy(name_field[1].value)
       THEN LET value == name_field[1].value[1]
                name_lower == Lower(value)
            IN IF \E i \in 1..Len(SANCTIONS_KEYWORDS) :
                    Contains(name_lower, Lower(SANCTIONS_KEYWORDS[i]))
                 THEN [ok |-> FALSE, passed |-> passed,
                       failed |-> Append(failed, Msg("SANCTIONS MATCH: ", value)),
                       flags |-> Append(flags, "SANCTIONS_HIT")]
                 ELSE [ok |-> TRUE,
                       passed |-> Append(passed,
                                    Msg("Sanctions screening: CLEAR", <<>>)),
                       failed |-> failed, flags |-> flags]
       ELSE [ok |-> TRUE,
             passed |-> Append(passed,
               Msg("Sanctions screening skipped - no name found", <<>>)),
             failed |-> failed, flags |-> flags]

_check_jurisdiction(field_map, passed, failed, flags) ==
  LET nationality == Get(field_map, "nationality")
  IN IF nationality # <<>> /\ Truthy(nationality[1].value)
       THEN LET country == Strip(nationality[1].value[1])
            IN IF InList(country, FATF_HIGH_RISK)
                 THEN [ok |-> FALSE, passed |-> passed,
                       failed |-> Append(failed,
                         Msg("FATF High-Risk Jurisdiction: ", country)),
                       flags |-> Append(flags, "FATF_HIGH_RISK")]
               ELSE IF InList(country, FATF_INCREASED_MONITORING)
                 THEN [ok |-> FALSE, passed |-> passed,
                       failed |-> Append(failed,
                         Msg("FATF Increased Monitoring: ", country)),
                       flags |-> Append(flags, "FATF_MONITORING")]
               ELSE [ok |-> TRUE,
                     passed |-> Append(passed,
                       Msg("Jurisdiction check: ", country \o <<" - CLEAR">>)),
                     failed |-> failed, flags |-> flags]
       ELSE [ok |-> TRUE,
             passed |-> Append(passed,
               Msg("Jurisdiction check skipped - no nationality found", <<>>)),
             failed |-> failed, flags |-> flags]

_check_pep_status(field_map, passed, failed, flags) ==
  LET pep_field == Get(field_map, "politically_exposed")
  IN IF pep_field # <<>> /\ Truthy(pep_field[1].value)
       THEN IF PepTruthy(pep_field[1].value[1])
              THEN [ok |-> FALSE, passed |-> passed,
                    failed |-> Append(failed,
                      Msg("Customer is a Politically Exposed Person (PEP)", <<>>)),
                    flags |-> Append(flags, "PEP_IDENTIFIED")]
              ELSE [ok |-> TRUE,
                    passed |-> Append(passed, Msg("PEP check: Not a PEP", <<>>)),
                    failed |-> failed, flags |-> flags]
       ELSE [ok |-> TRUE,
             passed |-> Append(passed,
               Msg("PEP check skipped - no PEP field found", <<>>)),
             failed |-> failed, flags |-> flags]

_check_confidence_levels(fields, passed, failed) ==
  LET IsLow(f) == /\ BelowCritical(f.confidence)
                  /\ InList(f.field_name, REQUIRED_KYC_FIELDS)
      low_confidence_fields == SelectSeq(fields, IsLow)
  IN IF low_confidence_fields # <<>>
       THEN LET names == [i \in 1..Len(low_confidence_fields) |->
                            low_confidence_fields[i].field_name]
            IN [ok |-> FALSE, passed |-> passed,
                failed |-> Append(failed,
                  Msg("Low confidence on critical fields: ", Join(", ", names)))]
       ELSE [ok |-> TRUE,
             passed |-> Append(passed,
               Msg("All critical fields meet confidence threshold", <<>>)),
             failed |-> failed]

\* ------------------------------------------------------------------------
\* State
\* ------------------------------------------------------------------------
VARIABLES
  extracted_fields,  \* the argument of the validate_kyc call
  today,             \* what date.today() returns
  pc,                \* position of the call inside validate_kyc
  field_map,         \* locals of validate_kyc
  checks_passed,
  checks_failed,
  flags,
  risk_score,
  result,            \* the returned ValidationResult, <<>> before the return
  runs,              \* the calls made so far: [today, result]
  req,               \* a /process request and what its collaborators answer
  outcome,           \* of process_document: "pending", "returned", "raised"
  response,          \* the DocumentProcessResponse returned, <<>> if none
  helper_call,       \* a helper called on its own: <<its arguments>>
  helper_ret,        \* <<what that call returned>>, <<>> before it returns
  batch,             \* the locals of a batch_process call, <<>> if none
  batch_response     \* the BatchProcessResponse returned, <<>> if none

vars == <<extracted_fields, today, pc, field_map, checks_passed,
          checks_failed, flags, risk_score, result, runs, req, outcome,
          response, helper_call, helper_ret, batch, batch_response>>

\* ------------------------------------------------------------------------
\* services/validator.py : validate_kyc, one operator per numbered block
\* ------------------------------------------------------------------------
Min(a, b) == IF a <= b THEN a ELSE b

\* lines 59-62 left out: the lists and the score keep what the previous
\* call left in them
Begin_Retained(fields) ==
  [checks_passed |-> checks_passed, checks_failed |-> checks_failed,
   flags |-> flags, risk_score |-> risk_score,
   field_map |-> FieldMap(fields)]

\* lines 59-64: the locals of one call
Begin(fields) ==
  [checks_passed |-> <<>>, checks_failed |-> <<>>, flags |-> <<>>,
   risk_score |-> 0, field_map |-> FieldMap(fields)]

Check1(L) ==
  LET r == _check_field_completeness(L.field_map, L.checks_passed,
                                     L.checks_failed)
  IN [L EXCEPT !.checks_passed = r.passed, !.checks_failed = r.failed,
               !.risk_score = IF ~r.ok THEN @ + DELTA_COMPLETENESS ELSE @]

Check2(L, day) ==
  LET r == _check_id_validity(L.field_map, L.checks_passed, L.checks_failed,
                              day)
  IN [L EXCEPT !.checks_passed = r.passed, !.checks_failed = r.failed,
               !.risk_score = IF ~r.ok THEN @ + DELTA_ID_VALIDITY ELSE @]

Check3(L) ==
  LET r == _check_sanctions(L.field_map, L.checks_passed, L.checks_failed,
                            L.flags)
  IN [L EXCEPT !.checks_passed = r.passed, !.checks_failed = r.failed,
               !.flags = r.flags,
               !.risk_score = IF ~r.ok THEN @ + DELTA_SANCTIONS ELSE @]

Check4(L) ==
  LET r == _check_jurisdiction(L.field_map, L.checks_passed, L.checks_failed,
                               L.flags)
  IN [L EXCEPT !.checks_passed = r.passed, !.checks_failed = r.failed,
               !.flags = r.flags,
               !.risk_score = IF ~r.ok THEN @ + DELTA_JURISDICTION ELSE @]

Check5(L) ==
  LET r == _check_pep_status(L.field_map, L.checks_passed, L.checks_failed,
                             L.flags)
  IN [L EXCEPT !.checks_passed = r.passed, !.checks_failed = r.failed,
               !.flags = r.flags,
               !.risk_score = IF ~r.ok THEN @ + DELTA_PEP ELSE @]

Check6(L, fields) ==
  LET r == _check_confidence_levels(fields, L.checks_passed, L.checks_failed)
  IN [L EXCEPT !.checks_passed = r.passed, !.checks_failed = r.failed,
               !.risk_score = IF ~r.ok THEN @ + DELTA_CONFIDENCE ELSE @]

\* mutant of the clamp: the sum is returned as it is
Clamp_Absent(score) == score

\* line 107: risk_score = min(risk_score, 1.0)
Clamp(score) == Min(score, RISK_CAP)

\* mutant of the rejection test: a score of exactly 0.5 is not rejected
Rejects_Strict(score) == score > REJECT_THRESHOLD

\* line 110: risk_score >= 0.5
Rejects(score) == score >= REJECT_THRESHOLD

\* lines 106-129: clamp, status, recommendation, ValidationResult
Verdict(L) ==
  LET score == Clamp(L.risk_score)
      status == IF L.checks_failed # <<>>
                  THEN IF Rejects(score)
                         THEN "failed"
                         ELSE "needs_manual_review"
                  ELSE "passed"
      recommendation ==
        IF L.checks_failed # <<>>
          THEN IF Rejects(score)
                 THEN "REJECT - High-risk indicators detected. Escalate to compliance."
                 ELSE "REVIEW - Some checks failed. Manual review required by compliance officer."
          ELSE "APPROVED - All compliance checks passed."
  IN [status |-> status,
      checks_passed |-> L.checks_passed,
      checks_failed |-> L.checks_failed,
      risk_score |-> score,
      flags |-> L.flags,
      recommendation |-> recommendation]

\* the whole call, as its callers see it
validate_kyc(fields, day) ==
  Verdict(Check6(Check5(Check4(Check3(Check2(Check1(Begin(fields)), day)))),
                 fields))

\* ------------------------------------------------------------------------
\* Inputs: the field lists handed to the validator
\* ------------------------------------------------------------------------
\* date.today() on the days of the model
Days == << <<2026, 11, 4>>, <<2026, 11, 5>> >>

s_AhmedAli == <<"A", "h", "m", "e", "d", " ", "A", "l", "i">>

s_Sanctioned ==
  <<"S", "A", "N", "C", "T", "I", "O", "N", "E", "D", "_",
    "E", "n", "t", "i", "t", "y", "_", "1", " ", "L", "L", "C">>

s_DateOfBirth == <<"1", "9", "8", "5", "-", "0", "6", "-", "1", "5">>

s_UAE == <<"U", "A", "E">>

s_Iran == <<"I", "r", "a", "n">>

s_Nigeria == <<"N", "i", "g", "e", "r", "i", "a">>

s_Salary == <<"S", "a", "l", "a", "r", "y">>

s_Engineer == <<"E", "n", "g", "i", "n", "e", "e", "r">>

s_Expired == <<"2", "0", "2", "0", "-", "0", "1", "-", "0", "1">>

\* the first day of the model: not expired on it, expired on the next
s_ExpiresDay1 == <<"2", "0", "2", "6", "-", "1", "1", "-", "0", "4">>

s_yes == <<"y", "e", "s">>

s_no == <<"n", "o">>

\* a KYC form: each slot left out or filled in, in the order of the form
FormInputs ==
  { a \o b \o c \o d \o e \o f \o g :
      a \in { <<>>,
              <<ExtractedField("customer_name", Some(s_AhmedAli), 90)>>,
              <<ExtractedField("customer_name", Some(s_Sanctioned), 79)>> },
      b \in { <<>>,
              <<ExtractedField("date_of_birth", Some(s_DateOfBirth), 80)>> },
      c \in { <<ExtractedField("nationality", Some(s_UAE), 90)>>,
              <<ExtractedField("nationality", Some(s_Iran), 90)>>,
              <<ExtractedField("nationality", Some(s_Nigeria), 90)>> },
      d \in { <<>>,
              <<ExtractedField("source_of_funds", Some(s_Salary), 90)>> },
      e \in { <<ExtractedField("occupation", Some(s_Engineer), 79)>>,
              <<ExtractedField("occupation", Some(s_Engineer), 90)>> },
      f \in { <<>>,
              <<ExtractedField("expiry_date", Some(s_Expired), 90)>>,
              <<ExtractedField("expiry_date", Some(s_ExpiresDay1), 90)>> },
      g \in { <<>>,
              <<ExtractedField("politically_exposed", Some(s_yes), 90)>> } }

\* further fields a document can carry: duplicates that override a slot,
\* other spellings, other names
ExtraPool ==
  { ExtractedField("occupation", Some(<<>>), 90),
    ExtractedField("date_of_birth", None, 90),
    ExtractedField("nationality", None, 90),
    ExtractedField("occupation", Some(s_Engineer), 95),
    ExtractedField("nationality", Some(<<" ", "I", "r", "a", "n", " ">>), 90),
    ExtractedField("nationality", Some(<<"i", "r", "a", "n">>), 90),
    ExtractedField("politically_exposed", Some(<<"Y", "e", "S">>), 90),
    ExtractedField("politically_exposed", Some(<<"T", "R", "U", "E">>), 90),
    ExtractedField("politically_exposed", Some(<<"1">>), 90),
    ExtractedField("politically_exposed", Some(<<" ", "y", "e", "s">>), 90),
    ExtractedField("politically_exposed", Some(s_no), 90),
    ExtractedField("id_expiry", Some(s_Expired), 90),
    ExtractedField("expiry_date",
      Some(<<"3", "1", "/", "1", "2", "/", "2", "0", "9", "9">>), 90),
    ExtractedField("expiry_date",
      Some(<<"1", "2", "/", "3", "1", "/", "2", "0", "2", "0">>), 90),
    ExtractedField("expiry_date", Some(<<"s", "o", "o", "n">>), 90),
    ExtractedField("full_name", Some(s_Sanctioned), 90),
    ExtractedField("text_line", Some(s_AhmedAli), 50) }

ExtraInputs == UNION { [1..n -> ExtraPool] : n \in 0..MaxExtra }

\* the state of the request handler, which a validate_kyc call leaves alone
handler_vars == <<req, outcome, response>>

\* the state of a helper called on its own
helper_vars == <<helper_call, helper_ret>>

\* no helper has been called
NoHelperCall ==
  /\ helper_call = <<>>
  /\ helper_ret = <<>>

\* the state of a batch_process call
batch_vars == <<batch, batch_response>>

\* no batch is being processed
NoBatch ==
  /\ batch = <<>>
  /\ batch_response = <<>>

\* no request is being handled
NoRequest ==
  /\ req = <<>>
  /\ outcome = "pending"
  /\ response = <<>>

locals == <<field_map, checks_passed, checks_failed, flags, risk_score>>

Locals ==
  [checks_passed |-> checks_passed, checks_failed |-> checks_failed,
   flags |-> flags, risk_score |-> risk_score, field_map |-> field_map]

SetLocals(L) ==
  /\ field_map' = L.field_map
  /\ checks_passed' = L.checks_passed
  /\ checks_failed' = L.checks_failed
  /\ flags' = L.flags
  /\ risk_score' = L.risk_score

Init ==
  /\ extracted_fields \in { f \o x : f \in FormInputs, x \in ExtraInputs }
  /\ today = Days[1]
  /\ pc = "call"
  /\ field_map = <<>>
  /\ checks_passed = <<>>
  /\ checks_failed = <<>>
  /\ flags = <<>>
  /\ risk_score = 0
  /\ result = <<>>
  /\ runs = <<>>
  /\ NoRequest
  /\ NoHelperCall
  /\ NoBatch

validate_kyc_begin ==
  /\ pc = "call"
  /\ SetLocals(Begin(extracted_fields))
  /\ pc' = "check1"
  /\ UNCHANGED <<extracted_fields, today, result, runs,
                 handler_vars, helper_vars, batch_vars>>

validate_kyc_check1 ==
  /\ pc = "check1"
  /\ SetLocals(Check1(Locals))
  /\ pc' = "check2"
  /\ UNCHANGED <<extracted_fields, today, result, runs,
                 handler_vars, helper_vars, batch_vars>>

validate_kyc_check2 ==
  /\ pc = "check2"
  /\ SetLocals(Check2(Locals, today))
  /\ pc' = "check3"
  /\ UNCHANGED <<extracted_fields, today, result, runs,
                 handler_vars, helper_vars, batch_vars>>

validate_kyc_check3 ==
  /\ pc = "check3"
  /\ SetLocals(Check3(Locals))
  /\ pc' = "check4"
  /\ UNCHANGED <<extracted_fields, today, result, runs,
                 handler_vars, helper_vars, batch_vars>>

validate_kyc_check4 ==
  /\ pc = "check4"
  /\ SetLocals(Check4(Locals))
  /\ pc' = "check5"
  /\ UNCHANGED <<extracted_fields, today, result, runs,
                 handler_vars, helper_vars, batch_vars>>

validate_kyc_check5 ==
  /\ pc = "check5"
  /\ SetLocals(Check5(Locals))
  /\ pc' = "check6"
  /\ UNCHANGED <<extracted_fields, today, result, runs,
                 handler_vars, helper_vars, batch_vars>>

validate_kyc_check6 ==
  /\ pc = "check6"
  /\ SetLocals(Check6(Locals, extracted_fields))
  /\ pc' = "verdict"
  /\ UNCHANGED <<extracted_fields, today, result, runs,
                 handler_vars, helper_vars, batch_vars>>

validate_kyc_return ==
  /\ pc = "verdict"
  /\ result' = <<Verdict(Locals)>>
  /\ runs' = Append(runs, [today |-> today, result |-> Verdict(Locals)])
  /\ risk_score' = Clamp(risk_score)
  /\ pc' = "done"
  /\ UNCHANGED <<extracted_fields, today, field_map, checks_passed,
                 checks_failed, flags, handler_vars, helper_vars, batch_vars>>

Next ==
  \/ validate_kyc_begin
  \/ validate_kyc_check1
  \/ validate_kyc_check2
  \/ validate_kyc_check3
  \/ validate_kyc_check4
  \/ validate_kyc_check5
  \/ validate_kyc_check6
  \/ validate_kyc_return

Spec == Init /\ [][Next]_vars

\* ------------------------------------------------------------------------
\* Repeated calls on one validator object, on the same day or the next
\* ------------------------------------------------------------------------
MaxRuns == 2

\* the caller calls validate_kyc again with the same field list
call_again ==
  /\ pc = "done"
  /\ Len(runs) < MaxRuns
  /\ pc' = "call"
  /\ result' = <<>>
  /\ UNCHANGED <<extracted_fields, today, locals, runs,
                 handler_vars, helper_vars, batch_vars>>

\* midnight passes between two calls
next_day ==
  /\ pc = "done"
  /\ today = Days[1]
  /\ today' = Days[2]
  /\ UNCHANGED <<extracted_fields, pc, locals, result, runs,
                 handler_vars, helper_vars, batch_vars>>

InitRerun ==
  /\ extracted_fields \in FormInputs
  /\ today = Days[1]
  /\ pc = "call"
  /\ field_map = <<>>
  /\ checks_passed = <<>>
  /\ checks_failed = <<>>
  /\ flags = <<>>
  /\ risk_score = 0
  /\ result = <<>>
  /\ runs = <<>>
  /\ NoRequest
  /\ NoHelperCall
  /\ NoBatch

NextRerun ==
  \/ validate_kyc_begin
  \/ validate_kyc_check1
  \/ validate_kyc_check2
  \/ validate_kyc_check3
  \/ validate_kyc_check4
  \/ validate_kyc_check5
  \/ validate_kyc_check6
  \/ validate_kyc_return
  \/ call_again
  \/ next_day

SpecRerun == InitRerun /\ [][NextRerun]_vars

\* ------------------------------------------------------------------------
\* config.py, models/enums.py : what the request handler reads
\* ------------------------------------------------------------------------
\* Settings.confidence_threshold, in hundredths
CONFIDENCE_THRESHOLD == 85

DocumentType ==
  {"invoice", "cheque", "id_card", "kyc_form", "trade_finance", "receipt",
   "bank_statement", "unknown"}

ProcessingStatus ==
  {"pending", "classifying", "extracting", "validating", "completed",
   "failed", "needs_review"}

\* f"{x:.2f}" of a confidence in [0, 1], given in hundredths
Format2f(c) ==
  <<Digits[(c \div 100) + 1], ".", Digits[((c \div 10) % 10) + 1],
    Digits[(c % 10) + 1]>>

\* str(x) of a float in [0, 1] with at most two decimals: the shortest
\* repr, which keeps one decimal at least
FloatStr(c) ==
  IF c % 10 = 0
    THEN <<Digits[(c \div 100) + 1], ".", Digits[((c \div 10) % 10) + 1]>>
    ELSE Format2f(c)

\* separator.join(xs) of strings that are themselves sequences of pieces
RECURSIVE JoinPieces(_, _)
JoinPieces(sep, xs) ==
  IF xs = <<>> THEN <<>>
  ELSE IF Len(xs) = 1 THEN xs[1]
  ELSE xs[1] \o <<sep>> \o JoinPieces(sep, Tail(xs))

\* ------------------------------------------------------------------------
\* services/extractor.py
\* ------------------------------------------------------------------------
\* a DocumentField of the analysis service, under its name in doc.fields;
\* the fields of the model carry no number, date or currency value
DocumentField(name, value_string, content, confidence) ==
  [field_name |-> name, value_string |-> value_string, content |-> content,
   confidence |-> confidence]

_convert_field(field_name, field) ==
  LET value == IF Truthy(field.value_string) THEN field.value_string
               ELSE IF Truthy(field.content) THEN field.content
               ELSE None
  IN ExtractedField(field_name, value,
       IF field.confidence = None THEN 0 ELSE field.confidence[1])

TABLE_NAMES == <<"table_0", "table_1">>

\* str(table_data) of a table without cells
s_NoCells == <<"[", "]">>

\* lines 101-151: document fields, then one text_line per line of each
\* page, then one field per table
extract(analyze) ==
  [i \in 1..Len(analyze.documents) |->
     _convert_field(analyze.documents[i].field_name, analyze.documents[i])]
  \o [i \in 1..Len(analyze.lines) |->
        ExtractedField("text_line", Some(analyze.lines[i]), 100)]
  \o [i \in 1..analyze.tables |->
        ExtractedField(TABLE_NAMES[i], Some(s_NoCells), 100)]

\* gate that also reports the raw OCR lines
IsLow_TextLinesToo(field, threshold) == field.confidence < threshold

\* line 178
IsLow(field, threshold) ==
  field.confidence < threshold /\ field.field_name # "text_line"

\* lines 179-182
Describe(field, threshold) ==
  <<field.field_name, ": ">> \o Format2f(field.confidence)
  \o <<" (threshold: ">> \o FloatStr(threshold) \o <<")">>

check_confidence(fields, threshold) ==
  LET low_confidence ==
        SelectSeq(fields, LAMBDA f : IsLow(f, threshold))
  IN [ok |-> Len(low_confidence) = 0,
      low |-> [i \in 1..Len(low_confidence) |->
                 Describe(low_confidence[i], threshold)]]

\* ------------------------------------------------------------------------
\* services/kyc_processor.py
\* ------------------------------------------------------------------------
\* mutant of the pre-screen's countries: the two lists of the validator
HIGH_RISK_COUNTRIES_AsValidator == FATF_HIGH_RISK \o FATF_INCREASED_MONITORING

HIGH_RISK_COUNTRIES ==
  << <<"I", "r", "a", "n">>,
     <<"N", "o", "r", "t", "h", " ", "K", "o", "r", "e", "a">>,
     <<"S", "y", "r", "i", "a">>,
     <<"Y", "e", "m", "e", "n">>,
     <<"L", "i", "b", "y", "a">>,
     <<"S", "o", "m", "a", "l", "i", "a">>,
     <<"S", "o", "u", "t", "h", " ", "S", "u", "d", "a", "n">>,
     <<"M", "y", "a", "n", "m", "a", "r">> >>

HIGH_RISK_OCCUPATIONS ==
  << <<"m", "o", "n", "e", "y", " ", "e", "x", "c", "h", "a", "n", "g",
       "e", "r">>,
     <<"c", "a", "s", "i", "n", "o">>,
     <<"g", "a", "m", "b", "l", "i", "n", "g">>,
     <<"c", "r", "y", "p", "t", "o", "c", "u", "r", "r", "e", "n", "c",
       "y">>,
     <<"a", "r", "m", "s", " ", "d", "e", "a", "l", "e", "r">>,
     <<"p", "r", "e", "c", "i", "o", "u", "s", " ", "m", "e", "t", "a",
       "l", "s">>,
     <<"r", "e", "a", "l", " ", "e", "s", "t", "a", "t", "e", " ", "a",
       "g", "e", "n", "t">> >>

\* RISK_FACTORS["pep_risk_multiplier"]
PEP_RISK_MULTIPLIER == 2

\* RISK_FACTORS["missing_field_penalty"], in hundredths
MISSING_FIELD_PENALTY == 10

\* the increments and the rating thresholds of _calculate_risk_rating,
\* in hundredths
KYC_COUNTRY_RISK == 40

KYC_OCCUPATION_RISK == 30

KYC_PEP_RISK == 30

RATING_VERY_HIGH == 70

RATING_HIGH == 40

RATING_MEDIUM == 20

KYC_CRITICAL_FIELDS ==
  <<"customer_name", "date_of_birth", "nationality", "source_of_funds",
    "occupation">>

\* the keys the structured-extraction prompt asks for
KYC_KEYS ==
  {"customer_name", "date_of_birth", "nationality", "occupation",
   "employer", "annual_income", "source_of_funds", "purpose_of_account",
   "politically_exposed", "residential_address", "phone_number", "email",
   "id_type", "id_number", "id_expiry"}

\* kyc_data.get(key): None for an absent key and for a null value
KycGet(kyc_data, key) ==
  IF key \in DOMAIN kyc_data THEN kyc_data[key] ELSE None

\* kyc_data.get(key, default): the default for an absent key only
KycGetOr(kyc_data, key, default) ==
  IF key \in DOMAIN kyc_data THEN kyc_data[key] ELSE Some(default)

\* (x or "") of an Optional[str]
OrEmpty(x) == IF Truthy(x) THEN x[1] ELSE <<>>

\* the score stops at 1.0, as the validator's does
KycRiskScore_Clamped(kyc_data) ==
  LET nationality == Strip(OrEmpty(KycGet(kyc_data, "nationality")))
      occupation == Lower(OrEmpty(KycGet(kyc_data, "occupation")))
      pep == Lower(OrEmpty(KycGet(kyc_data, "politically_exposed")))
      country == IF InList(nationality, HIGH_RISK_COUNTRIES)
                   THEN KYC_COUNTRY_RISK ELSE 0
      job == IF \E i \in 1..Len(HIGH_RISK_OCCUPATIONS) :
                   Contains(occupation, HIGH_RISK_OCCUPATIONS[i])
               THEN country + KYC_OCCUPATION_RISK ELSE country
      exposed == IF pep \in PEP_TRUTHY
                   THEN job * PEP_RISK_MULTIPLIER + KYC_PEP_RISK ELSE job
      missing == { i \in 1..Len(KYC_CRITICAL_FIELDS) :
                     ~Truthy(KycGet(kyc_data, KYC_CRITICAL_FIELDS[i])) }
  IN Min(exposed + MISSING_FIELD_PENALTY * Cardinality(missing), 100)

\* lines 164-190: the score of _calculate_risk_rating, in hundredths
KycRiskScore(kyc_data) ==
  LET nationality == Strip(OrEmpty(KycGet(kyc_data, "nationality")))
      occupation == Lower(OrEmpty(KycGet(kyc_data, "occupation")))
      pep == Lower(OrEmpty(KycGet(kyc_data, "politically_exposed")))
      country == IF InList(nationality, HIGH_RISK_COUNTRIES)
                   THEN KYC_COUNTRY_RISK ELSE 0
      job == IF \E i \in 1..Len(HIGH_RISK_OCCUPATIONS) :
                   Contains(occupation, HIGH_RISK_OCCUPATIONS[i])
               THEN country + KYC_OCCUPATION_RISK ELSE country
      exposed == IF pep \in PEP_TRUTHY
                   THEN job * PEP_RISK_MULTIPLIER + KYC_PEP_RISK ELSE job
      missing == { i \in 1..Len(KYC_CRITICAL_FIELDS) :
                     ~Truthy(KycGet(kyc_data, KYC_CRITICAL_FIELDS[i])) }
  IN exposed + MISSING_FIELD_PENALTY * Cardinality(missing)

\* lines 192-200
Rating(score) ==
  IF score >= RATING_VERY_HIGH THEN "very_high"
  ELSE IF score >= RATING_HIGH THEN "high"
  ELSE IF score >= RATING_MEDIUM THEN "medium"
  ELSE "low"

_calculate_risk_rating(kyc_data) == Rating(KycRiskScore(kyc_data))

\* mutant of the placeholders: only the empty string stands for "no value"
PLACEHOLDERS_EmptyOnly == { <<>> }

\* the values _make_field takes for "no value", compared in lower case
PLACEHOLDERS ==
  { <<"n", "u", "l", "l">>, <<"n", "o", "n", "e">>, <<"n", "/", "a">>,
    <<>> }

\* the default confidence of _make_field
KYC_FIELD_CONFIDENCE == 85

\* a slot is built for every key the mapping holds, whatever its value
_make_field_ForEveryKey(field_name, value) ==
  Some(ExtractedField(field_name, value, KYC_FIELD_CONFIDENCE))

_make_field(field_name, value) ==
  IF Truthy(value) /\ Lower(value[1]) \notin PLACEHOLDERS
    THEN Some(ExtractedField(field_name, value, KYC_FIELD_CONFIDENCE))
    ELSE None

\* what the structured-extraction call yields: the parsed mapping, or {}
\* when the call or the parsing of its answer fails
_extract_with_gpt(answer) == IF answer.ok THEN answer.data ELSE <<>>

\* lines 85-87: the text handed to the structured-extraction call
FullText(fields) ==
  LET lines == SelectSeq(fields, LAMBDA f :
                 Truthy(f.value) /\ f.field_name = "text_line")
  IN JoinPieces("\n", [i \in 1..Len(lines) |-> lines[i].value[1]])

s_Unknown == <<"U", "n", "k", "n", "o", "w", "n">>

\* KYCProcessor.process: answer is what the structured-extraction call
\* does when it is handed FullText(fields)
kyc_process(fields, answer) ==
  LET kyc_data == _extract_with_gpt(answer)
      slot(name) == _make_field(name, KycGet(kyc_data, name))
  IN [customer_name |-> slot("customer_name"),
      date_of_birth |-> slot("date_of_birth"),
      nationality |-> slot("nationality"),
      occupation |-> slot("occupation"),
      employer |-> slot("employer"),
      annual_income |-> slot("annual_income"),
      source_of_funds |-> slot("source_of_funds"),
      purpose_of_account |-> slot("purpose_of_account"),
      politically_exposed |-> slot("politically_exposed"),
      risk_rating |-> _calculate_risk_rating(kyc_data),
      id_documents |->
        IF Truthy(KycGet(kyc_data, "id_type"))
           \/ Truthy(KycGet(kyc_data, "id_number"))
          THEN << [type |-> KycGetOr(kyc_data, "id_type", s_Unknown),
                   number |-> KycGetOr(kyc_data, "id_number", <<>>),
                   expiry |-> KycGetOr(kyc_data, "id_expiry", <<>>)] >>
          ELSE <<>>]

\* ------------------------------------------------------------------------
\* services/cheque_processor.py
\* ------------------------------------------------------------------------
\* the characters U+2446 and U+2447 of the MICR line, each one piece
MICR_TRANSIT == "u2446"

MICR_ON_US == "u2447"

\* BANK_ROUTING_CODES, in the order of the source
BANK_ROUTING_CODES ==
  << [prefix |-> <<"0", "3", "3">>,
      name |->
        <<"A", "D", "C", "B", " ", "-", " ", "A", "b", "u", " ", "D", "h",
          "a", "b", "i", " ", "C", "o", "m", "m", "e", "r", "c", "i", "a",
          "l", " ", "B", "a", "n", "k">>],
     [prefix |-> <<"0", "4", "4">>,
      name |->
        <<"E", "m", "i", "r", "a", "t", "e", "s", " ", "N", "B", "D">>],
     [prefix |-> <<"0", "4", "6">>,
      name |->
        <<"A", "b", "u", " ", "D", "h", "a", "b", "i", " ", "I", "s", "l",
          "a", "m", "i", "c", " ", "B", "a", "n", "k">>],
     [prefix |-> <<"0", "3", "5">>,
      name |->
        <<"F", "i", "r", "s", "t", " ", "A", "b", "u", " ", "D", "h", "a",
          "b", "i", " ", "B", "a", "n", "k", " ", "(", "F", "A", "B",
          ")">>],
     [prefix |-> <<"0", "5", "0">>,
      name |->
        <<"M", "a", "s", "h", "r", "e", "q", " ", "B", "a", "n", "k">>],
     [prefix |-> <<"0", "6", "0">>,
      name |->
        <<"S", "t", "a", "t", "e", " ", "B", "a", "n", "k", " ", "o", "f",
          " ", "I", "n", "d", "i", "a">>],
     [prefix |-> <<"0", "0", "2">>,
      name |->
        <<"H", "D", "F", "C", " ", "B", "a", "n", "k">>],
     [prefix |-> <<"0", "0", "4">>,
      name |->
        <<"I", "C", "I", "C", "I", " ", "B", "a", "n", "k">>],
     [prefix |-> <<"0", "2", "9">>,
      name |->
        <<"A", "x", "i", "s", " ", "B", "a", "n", "k">>] >>

s_UnknownBank ==
  <<"U", "n", "k", "n", "o", "w", "n", " ", "B", "a", "n", "k">>

\* BANK_ROUTING_CODES.get(prefix, "Unknown Bank")
BankOf(prefix) ==
  IF \E i \in 1..Len(BANK_ROUTING_CODES) :
        BANK_ROUTING_CODES[i].prefix = prefix
    THEN BANK_ROUTING_CODES[
           CHOOSE i \in 1..Len(BANK_ROUTING_CODES) :
             BANK_ROUTING_CODES[i].prefix = prefix].name
    ELSE s_UnknownBank

\* lines 102-106: the values of the text_line fields, one per line
_build_text_content(fields) ==
  LET lines == SelectSeq(fields, LAMBDA f :
                 Truthy(f.value) /\ f.field_name = "text_line")
  IN JoinPieces("\n", [i \in 1..Len(lines) |-> lines[i].value[1]])

\* the number of characters from position p on that are digits (\d*)
RECURSIVE DigitRun(_, _)
DigitRun(text, p) ==
  IF p > Len(text) \/ ~IsDigit(text[p]) THEN 0
  ELSE 1 + DigitRun(text, p + 1)

\* the number of characters from position p on that are whitespace (\s*)
RECURSIVE SpaceRun(_, _)
SpaceRun(text, p) ==
  IF p > Len(text) \/ text[p] \notin Whitespace THEN 0
  ELSE 1 + SpaceRun(text, p + 1)

\* [c]? at position p: 1 if the character is there, else 0
Optional(text, p, c) == IF p <= Len(text) /\ text[p] = c THEN 1 ELSE 0

\* the three groups of a match, None if there is none
Groups(text, g1, g2, g3, len3) ==
  Some([group1 |-> SubSeq(text, g1, g1 + 5),
        group2 |-> SubSeq(text, g2, g2 + 8),
        group3 |-> SubSeq(text, g3, g3 + len3 - 1)])

\* MICR_PATTERN (line 14) matched from position p:
\*   [u2446]?(\d{6})[u2446]?\s*[u2447]?(\d{9})[u2447]?\s*(\d{6,12})
\* each optional character is taken exactly when it is there, \s* takes
\* all the whitespace and the last group takes up to twelve digits; no
\* other choice lets the rest of the pattern match
MatchMicrAt(text, p) ==
  LET g1 == p + Optional(text, p, MICR_TRANSIT)
      a == g1 + 6
      b == a + Optional(text, a, MICR_TRANSIT)
      c == b + SpaceRun(text, b)
      g2 == c + Optional(text, c, MICR_ON_US)
      d == g2 + 9
      e == d + Optional(text, d, MICR_ON_US)
      g3 == e + SpaceRun(text, e)
  IN IF DigitRun(text, g1) < 6 THEN None
     ELSE IF DigitRun(text, g2) < 9 THEN None
     ELSE IF DigitRun(text, g3) < 6 THEN None
     ELSE Groups(text, g1, g2, g3, Min(DigitRun(text, g3), 12))

\* alt_pattern (line 119) matched from position p:
\*   (\d{6})\s+(\d{9})\s+(\d{6,12})
MatchAltAt(text, p) ==
  LET a == p + 6
      g2 == a + SpaceRun(text, a)
      d == g2 + 9
      g3 == d + SpaceRun(text, d)
  IN IF DigitRun(text, p) < 6 \/ g2 = a THEN None
     ELSE IF DigitRun(text, g2) < 9 \/ g3 = d THEN None
     ELSE IF DigitRun(text, g3) < 6 THEN None
     ELSE Groups(text, p, g2, g3, Min(DigitRun(text, g3), 12))

\* re.search: the match at the leftmost position that has one
SearchMicr(text) ==
  LET at == {p \in 1..Len(text) : MatchMicrAt(text, p) # None}
  IN IF at = {} THEN None
     ELSE MatchMicrAt(text, CHOOSE p \in at : \A q \in at : p <= q)

SearchAlt(text) ==
  LET at == {p \in 1..Len(text) : MatchAltAt(text, p) # None}
  IN IF at = {} THEN None
     ELSE MatchAltAt(text, CHOOSE p \in at : \A q \in at : p <= q)

\* the dict _extract_micr builds from a match
MicrData(m) ==
  [cheque_number |-> m.group1,
   routing_code |-> m.group2,
   account_number |-> m.group3,
   full_micr |-> m.group1 \o <<" ">> \o m.group2 \o <<" ">> \o m.group3]

\* lines 108-131: None, or the MICR components found in the text
_extract_micr_PrefixOfChequeNumber(text) ==
  LET match == SearchMicr(text)
      alt == SearchAlt(text)
  IN IF match # None
       THEN Some([MicrData(match[1]) EXCEPT
                    !.routing_code = match[1].group1 \o <<"0", "0", "0">>])
     ELSE IF alt # None THEN Some(MicrData(alt[1]))
     ELSE None

_extract_micr(text) ==
  LET match == SearchMicr(text)
      alt == SearchAlt(text)
  IN IF match # None THEN Some(MicrData(match[1]))
     ELSE IF alt # None THEN Some(MicrData(alt[1]))
     ELSE None

MICR_NUMBER_CONFIDENCE == 90

MICR_CODE_CONFIDENCE == 88

BANK_NAME_CONFIDENCE == 85

\* ChequeProcessor.process, lines 54-78: the slots filled from the MICR
\* line of the text content
cheque_process(fields) ==
  LET text_content == _build_text_content(fields)
      micr_data == _extract_micr(text_content)
      found == micr_data # None
      routing_code == IF found THEN micr_data[1].routing_code ELSE <<>>
  IN [cheque_number |->
        IF found
          THEN Some(ExtractedField("cheque_number",
                 Some(micr_data[1].cheque_number), MICR_NUMBER_CONFIDENCE))
          ELSE None,
      micr_code |->
        IF found
          THEN Some(ExtractedField("micr_code",
                 Some(micr_data[1].full_micr), MICR_CODE_CONFIDENCE))
          ELSE None,
      account_number |->
        IF found
          THEN Some(ExtractedField("account_number",
                 Some(micr_data[1].account_number), MICR_NUMBER_CONFIDENCE))
          ELSE None,
      bank_name |->
        IF found
          THEN Some(ExtractedField("bank_name",
                 Some(BankOf(SubSeq(routing_code, 1, Min(3, Len(routing_code))))),
                 BANK_NAME_CONFIDENCE))
          ELSE None]

\* ------------------------------------------------------------------------
\* ChequeProcessor._detect_signature_region, lines 205-228
\* ------------------------------------------------------------------------
\* page.height or 1000, page.width or 1000: None and 0 are both falsy
DEFAULT_PAGE_SIZE == 1000

OrDefault(size) == IF size = 0 THEN DEFAULT_PAGE_SIZE ELSE size

\* line.polygon[i] for i in range(1, len, 2): the y of each vertex
YPositions(polygon) ==
  [k \in 1..(Len(polygon) \div 2) |-> polygon[2 * k]]

\* line.polygon[i] for i in range(0, len, 2): the x of each vertex, and
\* the last number of a polygon of odd length
XPositions(polygon) ==
  [k \in 1..((Len(polygon) + 1) \div 2) |-> polygon[2 * k - 1]]

\* y > page_height * 0.75 and x > page_width * 0.5; 0.75 and 0.5 are
\* exact doubles, the comparisons are made on quarters and halves
BelowThreeQuarters(y, page_height) == 4 * y > 3 * page_height

RightOfHalf(x, page_width) == 2 * x > page_width

\* lines 218-226: the line has a polygon, some y of it is in the bottom
\* quarter and some x of it is in the right half
LineInRegion(line, page_height, page_width) ==
  /\ line.polygon # None
  /\ line.polygon[1] # <<>>
  /\ \E i \in 1..Len(YPositions(line.polygon[1])) :
        BelowThreeQuarters(YPositions(line.polygon[1])[i], page_height)
  /\ \E i \in 1..Len(XPositions(line.polygon[1])) :
        RightOfHalf(XPositions(line.polygon[1])[i], page_width)

\* raw_result is None, or an AnalyzeResult with its pages; only the first
\* page is examined
_detect_signature_region(raw_result) ==
  /\ raw_result # None
  /\ raw_result[1].pages # <<>>
  /\ LET page == raw_result[1].pages[1]
     IN \E i \in 1..Len(page.lines) :
          LineInRegion(page.lines[i], OrDefault(page.height),
                       OrDefault(page.width))

\* ------------------------------------------------------------------------
\* ChequeProcessor._extract_amount_figures, lines 133-150
\* ------------------------------------------------------------------------
\* the characters U+00A3 and U+20AC, each one piece
POUND == "u00A3"

EURO == "u20AC"

\* (?:AED|USD|INR|Rs\.?|SAR|\$|£|€) under re.IGNORECASE, in lower case
\* and in the order the alternatives are tried; Rs\.? first takes the point
CURRENCY_PREFIXES ==
  << <<"a", "e", "d">>, <<"u", "s", "d">>, <<"i", "n", "r">>,
     <<"r", "s", ".">>, <<"r", "s">>, <<"s", "a", "r">>,
     <<"$">>, <<POUND>>, <<EURO>> >>

\* (?:AED|USD|INR|SAR|/-) under re.IGNORECASE
CURRENCY_SUFFIXES ==
  << <<"a", "e", "d">>, <<"u", "s", "d">>, <<"i", "n", "r">>,
     <<"s", "a", "r">>, <<"/", "-">> >>

\* the token stands in the text at position p, whatever the casing
TokenAt(text, p, token) ==
  /\ p + Len(token) - 1 <= Len(text)
  /\ Lower(SubSeq(text, p, p + Len(token) - 1)) = token

\* the number of characters from position p on that match [\d,]
RECURSIVE NumberRun(_, _)
NumberRun(text, p) ==
  IF p > Len(text) \/ ~(IsDigit(text[p]) \/ text[p] = ",") THEN 0
  ELSE 1 + NumberRun(text, p + 1)

\* the number of characters from position p on that are asterisks
RECURSIVE StarRun(_, _)
StarRun(text, p) ==
  IF p > Len(text) \/ text[p] # "*" THEN 0
  ELSE 1 + StarRun(text, p + 1)

\* the length of ([\d,]+\.?\d*) at position p, 0 when it does not match:
\* every part is greedy and what follows the group never starts with a
\* character that a shorter capture would leave over
CaptureLen(text, p) ==
  LET run == NumberRun(text, p)
      point == Optional(text, p + run, ".")
  IN IF run = 0 THEN 0
     ELSE run + point + DigitRun(text, p + run + point)

\* the group captured from position p
Capture(text, p) == SubSeq(text, p, p + CaptureLen(text, p) - 1)

\* the first pattern matched from position p: the capture, or None
PrefixedAmountAt(text, p) ==
  LET starts(i) ==
        LET q == p + Len(CURRENCY_PREFIXES[i])
        IN /\ TokenAt(text, p, CURRENCY_PREFIXES[i])
           /\ CaptureLen(text, q + SpaceRun(text, q)) > 0
      tried == {i \in 1..Len(CURRENCY_PREFIXES) : starts(i)}
  IN IF tried = {} THEN None
     ELSE LET i == CHOOSE i \in tried : \A j \in tried : i <= j
              q == p + Len(CURRENCY_PREFIXES[i])
          IN Some(Capture(text, q + SpaceRun(text, q)))

\* the second pattern matched from position p
SuffixedAmountAt(text, p) ==
  LET e == p + CaptureLen(text, p)
      f == e + SpaceRun(text, e)
  IN IF /\ CaptureLen(text, p) > 0
        /\ \E i \in 1..Len(CURRENCY_SUFFIXES) :
              TokenAt(text, f, CURRENCY_SUFFIXES[i])
       THEN Some(Capture(text, p))
       ELSE None

\* the third pattern matched from position p: \*{1,3} must take the whole
\* run of asterisks, as the group cannot start with one
StarredAmountAt(text, p) ==
  LET a == p + StarRun(text, p)
      b == a + SpaceRun(text, a)
      e == b + CaptureLen(text, b)
      f == e + SpaceRun(text, e)
  IN IF /\ StarRun(text, p) \in 1..3
        /\ CaptureLen(text, b) > 0
        /\ StarRun(text, f) >= 1
       THEN Some(Capture(text, b))
       ELSE None

\* re.search(pattern, text): the match at the leftmost position that has
\* one, None if there is none; matches[p] is the match of the pattern from
\* position p
Search(matches) ==
  LET at == {p \in DOMAIN matches : matches[p] # None}
  IN IF at = {} THEN None
     ELSE matches[CHOOSE p \in at : \A q \in at : p <= q]

AMOUNT_CONFIDENCE == 85

\* lines 146-149: the field built from a capture
AmountField(capture) ==
  Some(ExtractedField("amount_in_figures", Some(Remove(capture, ",")),
                      AMOUNT_CONFIDENCE))

\* the match that starts leftmost in the text wins, whatever its pattern
_extract_amount_figures_LeftmostWins(text) ==
  LET at(p) == <<PrefixedAmountAt(text, p), SuffixedAmountAt(text, p),
                 StarredAmountAt(text, p)>>
      hit(p) == \E k \in 1..3 : at(p)[k] # None
      ps == {p \in 1..Len(text) : hit(p)}
  IN IF ps = {} THEN None
     ELSE LET p == CHOOSE p \in ps : \A q \in ps : p <= q
              k == CHOOSE k \in 1..3 :
                     at(p)[k] # None /\ \A j \in 1..(k - 1) : at(p)[j] = None
          IN AmountField(at(p)[k][1])

\* lines 141-150: the patterns are tried in order over the whole text
_extract_amount_figures(text) ==
  LET prefixed == Search([p \in 1..Len(text) |-> PrefixedAmountAt(text, p)])
      suffixed == Search([p \in 1..Len(text) |-> SuffixedAmountAt(text, p)])
      starred == Search([p \in 1..Len(text) |-> StarredAmountAt(text, p)])
  IN IF prefixed # None THEN AmountField(prefixed[1])
     ELSE IF suffixed # None THEN AmountField(suffixed[1])
     ELSE IF starred # None THEN AmountField(starred[1])
     ELSE None

\* ------------------------------------------------------------------------
\* ChequeProcessor._extract_payee, lines 193-203
\* ------------------------------------------------------------------------
\* (?:Pay|Pay to|Payee) under re.IGNORECASE, in lower case and in the
\* order the alternatives are tried
PAYEE_KEYWORDS ==
  << <<"p", "a", "y">>, <<"p", "a", "y", " ", "t", "o">>,
     <<"p", "a", "y", "e", "e">> >>

\* (?:\n|or bearer|or order) under re.IGNORECASE
PAYEE_TERMINATORS ==
  << <<"\n">>, <<"o", "r", " ", "b", "e", "a", "r", "e", "r">>,
     <<"o", "r", " ", "o", "r", "d", "e", "r">> >>

\* the number of characters from position p on that match [\s:]
RECURSIVE KeywordSeparatorRun(_, _)
KeywordSeparatorRun(text, p) ==
  IF p > Len(text) \/ text[p] \notin Whitespace \cup {":"} THEN 0
  ELSE 1 + KeywordSeparatorRun(text, p + 1)

TerminatorAt(text, p) ==
  \E i \in 1..Len(PAYEE_TERMINATORS) : TokenAt(text, p, PAYEE_TERMINATORS[i])

\* (.+?) from position s followed by a terminator: the last position of
\* the shortest capture, 0 when there is none; the point matches no line
\* break
RECURSIVE LazyEnd(_, _, _)
LazyEnd(text, s, e) ==
  IF e > Len(text) \/ text[e] = "\n" THEN 0
  ELSE IF TerminatorAt(text, e + 1) THEN e
  ELSE LazyEnd(text, s, e + 1)

\* the keyword i taken at position p, and k characters by [\s:]+ : the
\* capture, or None
PayeeWith(text, p, i, k) ==
  LET s == p + Len(PAYEE_KEYWORDS[i]) + k
  IN IF /\ TokenAt(text, p, PAYEE_KEYWORDS[i])
        /\ k <= KeywordSeparatorRun(text, p + Len(PAYEE_KEYWORDS[i]))
        /\ LazyEnd(text, s, s) # 0
       THEN Some(SubSeq(text, s, LazyEnd(text, s, s)))
       ELSE None

\* the pattern matched from position p: the alternatives are tried in
\* order, then [\s:]+ from its longest to its shortest extent
PayeeAt(text, p) ==
  LET tries == { <<i, k>> \in (1..Len(PAYEE_KEYWORDS)) \X (1..Len(text)) :
                   PayeeWith(text, p, i, k) # None }
      first == CHOOSE t \in tries :
                 \A u \in tries :
                    t[1] < u[1] \/ (t[1] = u[1] /\ t[2] >= u[2])
  IN IF tries = {} THEN None
     ELSE PayeeWith(text, p, first[1], first[2])

PAYEE_CONFIDENCE == 80

_extract_payee(text) ==
  LET match == Search([p \in 1..Len(text) |-> PayeeAt(text, p)])
  IN IF match # None
       THEN Some(ExtractedField("payee_name", Some(Strip(match[1])),
                                PAYEE_CONFIDENCE))
       ELSE None

\* ------------------------------------------------------------------------
\* services/invoice_processor.py
\* ------------------------------------------------------------------------
\* float(s) for a plain decimal: surrounding whitespace, a sign, digits and
\* at most one point; the value is kept in hundredths (the amounts of the
\* model have at most two decimals); ValueError for any other string
ParseFloat(s) ==
  LET t == Strip(s)
      signed == t # <<>> /\ t[1] \in {"+", "-"}
      body == IF signed THEN Tail(t) ELSE t
      parts == Split(body, ".")
      whole == parts[1]
      frac == IF Len(parts) = 2 THEN parts[2] ELSE <<>>
      cents == SubSeq(frac \o <<"0", "0">>, 1, 2)
      magnitude == 100 * ParseInt(whole) + ParseInt(cents)
  IN IF \/ Len(parts) > 2
        \/ ~AllDigits(whole) \/ ~AllDigits(frac)
        \/ whole \o frac = <<>>
       THEN ValueError
     ELSE IF signed /\ t[1] = "-" THEN <<0 - magnitude>>
     ELSE <<magnitude>>

\* float(value.replace(",", "").replace("$", "")); AttributeError and
\* ValueError are both rendered as ValueError, the handler treats them alike
AmountOf(field) ==
  IF field.value = None THEN ValueError
  ELSE ParseFloat(Remove(Remove(field.value[1], ","), "$"))

\* the amounts one hundredth apart for which the doubles of line 91,
\* abs(float(subtotal) + float(tax) - float(total)), come out above the
\* double 0.01: <<subtotal, tax, total>> in hundredths
ROUNDS_ABOVE_TOLERANCE ==
  { <<10000, 500, 10501>>, <<10000, 500, 10499>>, <<10, 20, 29>> }

Abs(x) == IF x < 0 THEN 0 - x ELSE x

\* line 91: abs(expected - total) > 0.01 on doubles. More than one
\* hundredth apart, or equal, the doubles decide as the decimals do; for
\* amounts exactly one hundredth apart the rounding of the conversions, of
\* the sum and of the difference decides
ExceedsTolerance(subtotal, tax, total) ==
  IF Abs(subtotal + tax - total) # 1
    THEN Abs(subtotal + tax - total) > 1
    ELSE <<subtotal, tax, total>> \in ROUNDS_ABOVE_TOLERANCE

\* lines 82-97: the warning logged, if any, and the result as the call
\* leaves it; every exception of the block is caught by line 96
_validate_totals(invoice) ==
  LET checked == /\ invoice.subtotal # None
                 /\ invoice.tax_amount # None
                 /\ invoice.total_amount # None
      subtotal == AmountOf(invoice.subtotal[1])
      tax == AmountOf(invoice.tax_amount[1])
      total == AmountOf(invoice.total_amount[1])
      parsed == /\ subtotal # ValueError
                /\ tax # ValueError
                /\ total # ValueError
  IN [warning |-> /\ checked
                  /\ parsed
                  /\ ExceedsTolerance(subtotal[1], tax[1], total[1]),
      raised |-> FALSE,
      result |-> invoice]

\* ------------------------------------------------------------------------
\* InvoiceProcessor._extract_line_items, lines 56-80
\* ------------------------------------------------------------------------
\* a value stored in a line item: a string or a number
StoredText(s) == [text |-> Some(s), number |-> None]

StoredNumber(n) == [text |-> None, number |-> Some(n)]

\* the truth value of an Optional[str] and of an Optional[float]
TruthyNumber(n) == n # None /\ n[1] # 0

\* lines 71-78: the representation kept for one key, None when the four
\* tests all fail and the key is left out
_line_item_value(val) ==
  IF Truthy(val.value_string) THEN Some(StoredText(val.value_string[1]))
  ELSE IF TruthyNumber(val.value_number)
    THEN Some(StoredNumber(val.value_number[1]))
  ELSE IF val.value_currency # None
    THEN Some(StoredNumber(val.value_currency[1].amount))
  ELSE IF Truthy(val.content) THEN Some(StoredText(val.content[1]))
  ELSE None

\* lines 69-79: the dict built for one item with a non-empty value_object
_line_item(value_object) ==
  LET kept == {key \in DOMAIN value_object :
                 _line_item_value(value_object[key]) # None}
  IN [key \in kept |-> _line_item_value(value_object[key])[1]]

\* lines 65-68: the items of a document that have a non-empty
\* value_object, none when the document has no fields, no Items field or
\* an empty value_array
_items_of(doc) ==
  IF doc.fields = None \/ "Items" \notin DOMAIN doc.fields[1]
    THEN <<>>
    ELSE SelectSeq(doc.fields[1]["Items"].value_array, LAMBDA item :
           item.value_object # None /\ DOMAIN item.value_object[1] # {})

RECURSIVE _line_items_of(_)
_line_items_of(documents) ==
  IF documents = <<>> THEN <<>>
  ELSE [i \in 1..Len(_items_of(documents[1])) |->
          _line_item(_items_of(documents[1])[i].value_object[1])]
       \o _line_items_of(Tail(documents))

\* raw_result is None or an AnalyzeResult with its documents
_extract_line_items(raw_result) ==
  IF raw_result = None THEN <<>>
  ELSE _line_items_of(raw_result[1].documents)

\* ------------------------------------------------------------------------
\* routers/documents.py : process_document
\* ------------------------------------------------------------------------
\* str(e) of the exception a step of the pipeline raises
ErrorText(step) ==
  CASE step = "document_type" -> "is not a valid DocumentType"
    [] step = "preprocess" -> "Failed to decode image from bytes"
    [] step = "extract" -> "analysis request failed"
    [] step = "assemble" -> "assembly failed"
    [] step = "save" -> "result could not be saved"

\* lines 178-189: the response built by the handler of Exception
FailedResponse(step) ==
  [status |-> "failed",
   document_type |-> "unknown",
   classification_confidence |-> 0,
   extracted_fields |-> <<>>,
   extraction_result |-> None,
   validation |-> None,
   needs_human_review |-> TRUE,
   review_reason |-> Some(Msg("Processing error: ", <<ErrorText(step)>>))]

\* the elif of line 146 left out: only the confidence gate asks for review
ReviewStatus_ConfidenceOnly(confidence_ok, low_fields, validation_result) ==
  IF ~confidence_ok
    THEN [needs_review |-> TRUE,
          review_reason |->
            Some(Msg("Low confidence fields: ", JoinPieces(", ", low_fields)))]
    ELSE [needs_review |-> FALSE, review_reason |-> None]

\* lines 139-148
ReviewStatus(confidence_ok, low_fields, validation_result) ==
  IF ~confidence_ok
    THEN [needs_review |-> TRUE,
          review_reason |->
            Some(Msg("Low confidence fields: ", JoinPieces(", ", low_fields)))]
    ELSE IF validation_result # None
            /\ validation_result[1].status # "passed"
      THEN [needs_review |-> TRUE,
            review_reason |->
              Some(Msg("Validation: ", <<validation_result[1].recommendation>>))]
      ELSE [needs_review |-> FALSE, review_reason |-> None]

PREPROCESSED_TYPES == {"cheque", "id_card", "kyc_form", "trade_finance"}

ASSEMBLED_TYPES == {"invoice", "cheque", "kyc_form"}

VALIDATED_TYPES == {"kyc_form", "id_card"}

\* lines 70-189: what the handler does with request r on the given day.
\* r says what the file checks, the classifier and the analysis service
\* answer and which step, if any, raises.
Handle(r, day) ==
  LET given == r.document_type # None /\ r.document_type[1] # ""
      doc_type == IF given THEN r.document_type[1] ELSE r.classified.type
      classification_confidence ==
        IF given THEN 100 ELSE r.classified.confidence
      fields == extract(r.analyze)
      \* lines 121-128; the invoice and cheque results are not carried
      extraction_result ==
        IF doc_type = "kyc_form"
          THEN Some(kyc_process(fields, r.gpt))
          ELSE None
      gate == check_confidence(fields, CONFIDENCE_THRESHOLD)
      validation_result ==
        IF doc_type \in VALIDATED_TYPES
          THEN Some(validate_kyc(fields, day))
          ELSE None
      review == ReviewStatus(gate.ok, gate.low, validation_result)
      completed ==
        [status |-> "completed",
         document_type |-> doc_type,
         classification_confidence |-> classification_confidence,
         extracted_fields |-> fields,
         extraction_result |-> extraction_result,
         validation |-> validation_result,
         needs_human_review |-> review.needs_review,
         review_reason |-> review.review_reason]
      returned(resp) == [outcome |-> "returned", response |-> Some(resp)]
  IN IF ~r.ext_ok \/ ~r.size_ok
       THEN [outcome |-> "raised", response |-> None]
     ELSE IF given /\ r.document_type[1] \notin DocumentType
       THEN returned(FailedResponse("document_type"))
     ELSE IF r.fails = "preprocess" /\ r.is_image
             /\ doc_type \in PREPROCESSED_TYPES
       THEN returned(FailedResponse("preprocess"))
     ELSE IF r.fails = "extract"
       THEN returned(FailedResponse("extract"))
     ELSE IF r.fails = "assemble" /\ doc_type \in ASSEMBLED_TYPES
       THEN returned(FailedResponse("assemble"))
     ELSE IF r.fails = "save"
       THEN returned(FailedResponse("save"))
     ELSE returned(completed)

\* ------------------------------------------------------------------------
\* Inputs: the requests to /process and the answers of the collaborators
\* ------------------------------------------------------------------------
MaxDocExtra == 1

\* nothing recognised, or a complete benign form at confidence 0.90
DocBases ==
  { <<>>,
    << DocumentField("customer_name", Some(s_AhmedAli), None, Some(90)),
       DocumentField("date_of_birth", Some(s_DateOfBirth), None, Some(90)),
       DocumentField("nationality", Some(s_UAE), None, Some(90)),
       DocumentField("source_of_funds", None, Some(s_Salary), Some(90)),
       DocumentField("occupation", Some(s_Engineer), None, Some(90)) >> }

DocPool ==
  { DocumentField("nationality", Some(s_Iran), None, Some(90)),
    DocumentField("occupation", Some(s_Engineer), None, Some(82)),
    DocumentField("occupation", Some(s_Engineer), None, Some(85)),
    DocumentField("account_type", None, None, None),
    DocumentField("expiry_date", Some(s_Expired), None, Some(90)),
    DocumentField("customer_name", Some(s_Sanctioned), None, Some(84)),
    DocumentField("politically_exposed", Some(<<>>), Some(s_yes), Some(84)) }

DocInputs ==
  { b \o x : b \in DocBases,
             x \in UNION { [1..n -> DocPool] : n \in 0..MaxDocExtra } }

AnalyzeResults ==
  [documents : DocInputs, lines : { <<>>, <<s_AhmedAli>> }, tables : {0, 1}]

\* the document_type form parameter: absent, empty, or a string
DocumentTypeInputs ==
  { None, Some(""), Some("kyc_form"), Some("passport") }

\* what classifier.classify answers; (unknown, 0.0) when it fails
ClassifierAnswers ==
  { [type |-> "id_card", confidence |-> 95],
    [type |-> "invoice", confidence |-> 90],
    [type |-> "unknown", confidence |-> 0] }

\* the structured-extraction call fails
GptFailed == [ok |-> FALSE, data |-> <<>>]

\* the structured-extraction call returns the five required fields of a
\* benign customer
GptCompleteBenign ==
  [ok |-> TRUE,
   data |-> [k \in {"customer_name", "date_of_birth", "nationality",
                    "source_of_funds", "occupation", "politically_exposed"}
             |-> CASE k = "customer_name" -> Some(s_AhmedAli)
                   [] k = "date_of_birth" -> Some(s_DateOfBirth)
                   [] k = "nationality" -> Some(s_UAE)
                   [] k = "source_of_funds" -> Some(s_Salary)
                   [] k = "occupation" -> Some(s_Engineer)
                   [] k = "politically_exposed" -> Some(s_no)]]

GptAnswers == {GptFailed, GptCompleteBenign}

Requests ==
  [ext_ok : BOOLEAN, size_ok : BOOLEAN,
   document_type : DocumentTypeInputs,
   classified : ClassifierAnswers,
   is_image : BOOLEAN,
   fails : {"none", "preprocess", "extract", "assemble", "save"},
   analyze : AnalyzeResults,
   gpt : GptAnswers]

\* ------------------------------------------------------------------------
\* One request to POST /process
\* ------------------------------------------------------------------------
InitDoc ==
  /\ extracted_fields = <<>>
  /\ today = Days[1]
  /\ pc = "idle"
  /\ field_map = <<>>
  /\ checks_passed = <<>>
  /\ checks_failed = <<>>
  /\ flags = <<>>
  /\ risk_score = 0
  /\ result = <<>>
  /\ runs = <<>>
  /\ NoRequest
  /\ NoHelperCall
  /\ NoBatch

process_document ==
  /\ outcome = "pending"
  /\ \E r \in Requests :
       /\ req' = <<r>>
       /\ outcome' = Handle(r, today).outcome
       /\ response' = Handle(r, today).response
  /\ UNCHANGED <<extracted_fields, today, pc, locals, result, runs,
                 helper_vars, batch_vars>>

NextDoc == process_document

SpecDoc == InitDoc /\ [][NextDoc]_vars

\* ------------------------------------------------------------------------
\* check_confidence called on its own, under any threshold setting
\* ------------------------------------------------------------------------
MaxGateLen == 3

GatePool ==
  { ExtractedField("text_line", Some(s_AhmedAli), 50),
    ExtractedField("text_line", Some(s_UAE), 100),
    ExtractedField("occupation", Some(s_Engineer), 84),
    ExtractedField("nationality", Some(s_UAE), 85),
    ExtractedField("account_type", None, 7) }

GateInputs == UNION { [1..n -> GatePool] : n \in 0..MaxGateLen }

\* Settings.confidence_threshold as the deployment may set it
ThresholdInputs == {8, 85, 100}

InitGate ==
  /\ extracted_fields \in GateInputs
  /\ today = Days[1]
  /\ pc = "idle"
  /\ field_map = <<>>
  /\ checks_passed = <<>>
  /\ checks_failed = <<>>
  /\ flags = <<>>
  /\ risk_score = 0
  /\ result = <<>>
  /\ runs = <<>>
  /\ NoRequest
  /\ NoHelperCall
  /\ NoBatch

call_check_confidence ==
  /\ helper_call = <<>>
  /\ \E t \in ThresholdInputs :
       /\ helper_call' = <<[fields |-> extracted_fields, threshold |-> t]>>
       /\ helper_ret' = <<check_confidence(extracted_fields, t)>>
  /\ UNCHANGED <<extracted_fields, today, pc, locals, result, runs,
                 handler_vars, batch_vars>>

NextGate == call_check_confidence

SpecGate == InitGate /\ [][NextGate]_vars

\* ------------------------------------------------------------------------
\* routers/documents.py : batch_process
\* ------------------------------------------------------------------------
MaxBatch == 3

\* what one uploaded file of a batch leads to; the document_type of the
\* request is the one of the batch
BatchFile(ext_ok, classified, fails, documents) ==
  [ext_ok |-> ext_ok, size_ok |-> TRUE, document_type |-> None,
   classified |-> classified, is_image |-> FALSE, fails |-> fails,
   analyze |-> [documents |-> documents, lines |-> <<>>, tables |-> 0],
   gpt |-> GptFailed]

CompleteForm == CHOOSE b \in DocBases : b # <<>>

BatchFilePool ==
  { \* refused with HTTP 400
    BatchFile(FALSE, [type |-> "invoice", confidence |-> 90], "none", <<>>),
    \* the analysis service fails
    BatchFile(TRUE, [type |-> "invoice", confidence |-> 90], "extract", <<>>),
    \* an invoice read with confidence
    BatchFile(TRUE, [type |-> "invoice", confidence |-> 90], "none",
              CompleteForm),
    \* an ID card on which nothing was recognised
    BatchFile(TRUE, [type |-> "id_card", confidence |-> 95], "none", <<>>) }

BatchInputs ==
  [files : UNION { [1..n -> BatchFilePool] : n \in 0..MaxBatch },
   document_type : { None, Some("kyc_form"), Some("passport") }]

\* lines 198-202: the locals before the loop
BatchBegin(input) ==
  [files |-> input.files, document_type |-> input.document_type, i |-> 1,
   results |-> <<>>, success_count |-> 0, failure_count |-> 0,
   review_count |-> 0]

\* an exception of one item ends the loop
BatchItem_AbortsOnException(b, day) ==
  LET file == [b.files[b.i] EXCEPT !.document_type = b.document_type]
      h == Handle(file, day)
  IN IF h.outcome = "raised"
       THEN [b EXCEPT !.i = Len(b.files) + 1,
                      !.failure_count = b.failure_count + 1]
       ELSE [b EXCEPT
               !.i = b.i + 1,
               !.results = Append(b.results, h.response[1]),
               !.success_count =
                  IF h.response[1].status = "completed"
                    THEN b.success_count + 1 ELSE b.success_count,
               !.review_count =
                  IF h.response[1].needs_human_review
                    THEN b.review_count + 1 ELSE b.review_count]

\* lines 204-214: one turn of the loop, on file b.i
BatchItem(b, day) ==
  LET file == [b.files[b.i] EXCEPT !.document_type = b.document_type]
      h == Handle(file, day)
  IN IF h.outcome = "raised"
       THEN [b EXCEPT !.i = b.i + 1, !.failure_count = b.failure_count + 1]
       ELSE [b EXCEPT
               !.i = b.i + 1,
               !.results = Append(b.results, h.response[1]),
               !.success_count =
                  IF h.response[1].status = "completed"
                    THEN b.success_count + 1 ELSE b.success_count,
               !.review_count =
                  IF h.response[1].needs_human_review
                    THEN b.review_count + 1 ELSE b.review_count]

\* mutant of the response: the responses that came back FAILED are added to
\* failure_count
BatchResponse_FailedCounted(b) ==
  LET failed(r) == r.status = "failed"
  IN [total_documents |-> Len(b.files),
      results |-> b.results,
      success_count |-> b.success_count,
      failure_count |-> b.failure_count + Len(SelectSeq(b.results, failed)),
      review_count |-> b.review_count]

\* lines 217-226
BatchResponse(b) ==
  [total_documents |-> Len(b.files),
   results |-> b.results,
   success_count |-> b.success_count,
   failure_count |-> b.failure_count,
   review_count |-> b.review_count]

InitBatch ==
  /\ extracted_fields = <<>>
  /\ today = Days[1]
  /\ pc = "idle"
  /\ field_map = <<>>
  /\ checks_passed = <<>>
  /\ checks_failed = <<>>
  /\ flags = <<>>
  /\ risk_score = 0
  /\ result = <<>>
  /\ runs = <<>>
  /\ NoRequest
  /\ NoHelperCall
  /\ NoBatch

batch_process_begin ==
  /\ batch = <<>>
  /\ \E input \in BatchInputs : batch' = <<BatchBegin(input)>>
  /\ UNCHANGED <<extracted_fields, today, pc, locals, result, runs,
                 handler_vars, helper_vars, batch_response>>

batch_process_item ==
  /\ batch # <<>>
  /\ batch_response = <<>>
  /\ batch[1].i <= Len(batch[1].files)
  /\ batch' = <<BatchItem(batch[1], today)>>
  /\ UNCHANGED <<extracted_fields, today, pc, locals, result, runs,
                 handler_vars, helper_vars, batch_response>>

batch_process_return ==
  /\ batch # <<>>
  /\ batch_response = <<>>
  /\ batch[1].i > Len(batch[1].files)
  /\ batch_response' = <<BatchResponse(batch[1])>>
  /\ UNCHANGED <<extracted_fields, today, pc, locals, result, runs,
                 handler_vars, helper_vars, batch>>

NextBatch ==
  \/ batch_process_begin
  \/ batch_process_item
  \/ batch_process_return

SpecBatch == InitBatch /\ [][NextBatch]_vars

\* ------------------------------------------------------------------------
\* The KYC assembler called on its own: the answers of the
\* structured-extraction call
\* ------------------------------------------------------------------------
s_IranPadded == <<" ", "I", "r", "a", "n", " ">>

s_IranLower == <<"i", "r", "a", "n">>

s_Somalia == <<"S", "o", "m", "a", "l", "i", "a">>

s_CasinoManager ==
  <<"C", "a", "s", "i", "n", "o", " ", "M", "a", "n", "a", "g", "e", "r">>

s_CasinoGambling ==
  <<"c", "a", "s", "i", "n", "o", " ", "a", "n", "d", " ", "g", "a", "m",
    "b", "l", "i", "n", "g">>

s_YES == <<"Y", "E", "S">>

s_yesPadded == <<" ", "y", "e", "s">>

s_one == <<"1">>

s_NA == <<"N", "/", "A">>

s_Passport == <<"P", "a", "s", "s", "p", "o", "r", "t">>

s_IdNumber == <<"P", "1", "2", "3", "4", "5", "6", "7">>

\* what an answer holds for a key: no such key, null, or a string
KeyAbsent == [present |-> FALSE, value |-> None]

KeyNull == [present |-> TRUE, value |-> None]

KeyStr(s) == [present |-> TRUE, value |-> Some(s)]

KycChoices ==
  [customer_name : {KeyAbsent, KeyStr(s_AhmedAli)},
   date_of_birth : {KeyAbsent, KeyStr(s_DateOfBirth)},
   nationality : {KeyAbsent, KeyNull, KeyStr(s_Iran), KeyStr(s_IranPadded),
                  KeyStr(s_IranLower), KeyStr(s_Somalia), KeyStr(s_UAE)},
   occupation : {KeyAbsent, KeyStr(<<>>), KeyStr(s_CasinoManager),
                 KeyStr(s_CasinoGambling), KeyStr(s_Engineer)},
   source_of_funds : {KeyNull, KeyStr(s_NA), KeyStr(s_Salary)},
   politically_exposed : {KeyAbsent, KeyStr(s_YES), KeyStr(s_yesPadded),
                          KeyStr(s_one), KeyStr(s_no)},
   id_type : {KeyAbsent, KeyNull, KeyStr(s_Passport)},
   id_number : {KeyAbsent, KeyStr(s_IdNumber)}]

\* the mapping of an answer: the keys it holds, each with null or a string
KycMapping(choice) ==
  [k \in {key \in DOMAIN choice : choice[key].present} |-> choice[k].value]

\* the structured-extraction call answers {}
GptEmpty == [ok |-> TRUE, data |-> <<>>]

KycAnswers ==
  {GptFailed, GptEmpty}
  \cup {[ok |-> TRUE, data |-> KycMapping(c)] : c \in KycChoices}

InitKyc ==
  /\ extracted_fields
       \in { <<>>, <<ExtractedField("text_line", Some(s_AhmedAli), 100)>> }
  /\ today = Days[1]
  /\ pc = "idle"
  /\ field_map = <<>>
  /\ checks_passed = <<>>
  /\ checks_failed = <<>>
  /\ flags = <<>>
  /\ risk_score = 0
  /\ result = <<>>
  /\ runs = <<>>
  /\ NoRequest
  /\ NoHelperCall
  /\ NoBatch

\* KYCProcessor.process on the layout fields and an answer
call_kyc_process ==
  /\ helper_call = <<>>
  /\ \E answer \in KycAnswers :
       /\ helper_call' = <<[fn |-> "process", answer |-> answer]>>
       /\ helper_ret' = <<kyc_process(extracted_fields, answer)>>
  /\ UNCHANGED <<extracted_fields, today, pc, locals, result, runs,
                 handler_vars, batch_vars>>

\* KYCProcessor._calculate_risk_rating on a mapping; the score it holds
\* when it returns is kept with the rating
call_calculate_risk_rating ==
  /\ helper_call = <<>>
  /\ \E answer \in KycAnswers :
       /\ helper_call' =
            <<[fn |-> "_calculate_risk_rating",
               kyc_data |-> _extract_with_gpt(answer)]>>
       /\ helper_ret' =
            <<[rating |-> _calculate_risk_rating(_extract_with_gpt(answer)),
               risk_score |-> KycRiskScore(_extract_with_gpt(answer))]>>
  /\ UNCHANGED <<extracted_fields, today, pc, locals, result, runs,
                 handler_vars, batch_vars>>

NextKyc ==
  \/ call_kyc_process
  \/ call_calculate_risk_rating

SpecKyc == InitKyc /\ [][NextKyc]_vars

\* ------------------------------------------------------------------------
\* One call of the cheque assembler or of its MICR extractor
\* ------------------------------------------------------------------------
\* the pieces of the text of a cheque: what precedes the MICR line, its
\* three groups of digits and what separates them
ChequePrefixes ==
  { <<>>,
    <<"N", "o", " ">>,
    <<"9", "9">>,
    <<"9", "9", " ">> }

ChequeNumbers ==
  { <<"1", "2", "3", "4", "5", "6">>,
    <<"0", "0", "0", "0", "0", "1">> }

FirstSeparators ==
  { <<" ">>,
    <<"\t", " ">>,
    <<>>,
    <<MICR_TRANSIT>>,
    <<MICR_TRANSIT, " ", MICR_ON_US>>,
    <<"-">> }

RoutingCodes ==
  { <<"7", "8", "9", "0", "1", "2", "3", "4", "5">>,
    <<"0", "4", "4", "1", "2", "3", "4", "5", "6">>,
    <<"0", "3", "3", "0", "0", "0", "0", "0", "1">>,
    <<"1", "2", "3", "4", "5", "6", "7", "8">> }

SecondSeparators ==
  { <<" ">>,
    <<"\n">>,
    <<>>,
    <<MICR_ON_US>>,
    <<MICR_ON_US, " ">> }

AccountNumbers ==
  { <<"1", "2", "3", "4", "5", "6">>,
    <<"1", "2", "3", "4", "5", "6", "7", "8", "9", "0">>,
    <<"1", "2", "3", "4", "5", "6", "7", "8", "9", "0", "1", "2">>,
    <<"1", "2", "3", "4", "5", "6", "7", "8", "9", "0", "1", "2", "3">>,
    <<"1", "2", "3", "4", "5">> }

\* a table cell the layout model found on the cheque
TableCell ==
  ExtractedField("table_0", Some(<<"9", "9", "9", "9", "9", "9">>), 100)

TextLine(s) == ExtractedField("text_line", Some(s), 100)

\* the text lines of a cheque: the MICR line on one line, or broken after
\* its first group
ChequeLines ==
  { <<TextLine(p \o n \o s1 \o r \o s2 \o a)>> :
      p \in ChequePrefixes, n \in ChequeNumbers, s1 \in FirstSeparators,
      r \in RoutingCodes, s2 \in SecondSeparators, a \in AccountNumbers }
  \cup
  { <<TextLine(p \o n), TextLine(r \o s2 \o a)>> :
      p \in ChequePrefixes, n \in ChequeNumbers,
      r \in RoutingCodes, s2 \in SecondSeparators, a \in AccountNumbers }

ChequeInputs ==
  { lead \o lines : lead \in {<<>>, <<TableCell>>}, lines \in ChequeLines }

InitCheque ==
  /\ extracted_fields \in ChequeInputs
  /\ today = Days[1]
  /\ pc = "idle"
  /\ field_map = <<>>
  /\ checks_passed = <<>>
  /\ checks_failed = <<>>
  /\ flags = <<>>
  /\ risk_score = 0
  /\ result = <<>>
  /\ runs = <<>>
  /\ NoRequest
  /\ NoHelperCall
  /\ NoBatch

\* ChequeProcessor.process on the extracted fields
call_cheque_process ==
  /\ helper_call = <<>>
  /\ helper_call' = <<[fn |-> "process", fields |-> extracted_fields]>>
  /\ helper_ret' = <<cheque_process(extracted_fields)>>
  /\ UNCHANGED <<extracted_fields, today, pc, locals, result, runs,
                 handler_vars, batch_vars>>

\* ChequeProcessor._extract_micr on the text content of the fields
call_extract_micr ==
  /\ helper_call = <<>>
  /\ helper_call' = <<[fn |-> "_extract_micr",
                       text |-> _build_text_content(extracted_fields)]>>
  /\ helper_ret' = <<_extract_micr(_build_text_content(extracted_fields))>>
  /\ UNCHANGED <<extracted_fields, today, pc, locals, result, runs,
                 handler_vars, batch_vars>>

NextCheque == call_cheque_process \/ call_extract_micr

SpecCheque == InitCheque /\ [][NextCheque]_vars

\* ------------------------------------------------------------------------
\* One call of the invoice total cross-check
\* ------------------------------------------------------------------------
SubtotalValues ==
  { <<"1", "0", "0", ".", "0", "0">>,
    <<"1", ",", "0", "0", "0", ".", "0", "0">>,
    <<"0", ".", "1", "0">>,
    <<"a", "b", "c">> }

TaxValues ==
  { <<"5", ".", "0", "0">>,
    <<"$", "5", ".", "0", "0">>,
    <<"0", ".", "2", "0">>,
    <<>> }

TotalValues ==
  { <<"1", "0", "5", ".", "0", "0">>,
    <<"1", "1", "0", ".", "0", "0">>,
    <<"1", "0", "5", ".", "0", "1">>,
    <<"1", "0", "4", ".", "9", "9">>,
    <<"$", "1", ",", "0", "0", "5", ".", "0", "0">>,
    <<"0", ".", "3", "1">>,
    <<"0", ".", "2", "9">>,
    <<"0", ".", "3", "0">>,
    <<"N", "/", "A">> }

\* a slot of the result: no field, a field without a value, or a field
\* with one of the values
Slots(name, values) ==
  {None, Some(ExtractedField(name, None, 90))}
  \cup { Some(ExtractedField(name, Some(v), 90)) : v \in values }

s_Acme == <<"A", "c", "m", "e">>

LineItemInputs ==
  { <<>>, <<[Description |-> <<"P", "e", "n">>, Amount |-> 500]>> }

\* the InvoiceResult objects handed to the cross-check
InvoiceResults ==
  { [vendor_name |-> Some(ExtractedField("VendorName", Some(s_Acme), 90)),
     vendor_address |-> None,
     invoice_number |-> None,
     invoice_date |-> None,
     due_date |-> None,
     subtotal |-> s,
     tax_amount |-> t,
     total_amount |-> a,
     currency |-> None,
     purchase_order |-> None,
     line_items |-> items] :
      s \in Slots("SubTotal", SubtotalValues),
      t \in Slots("TotalTax", TaxValues),
      a \in Slots("InvoiceTotal", TotalValues),
      items \in LineItemInputs }

InitInvoice ==
  /\ extracted_fields = <<>>
  /\ today = Days[1]
  /\ pc = "idle"
  /\ field_map = <<>>
  /\ checks_passed = <<>>
  /\ checks_failed = <<>>
  /\ flags = <<>>
  /\ risk_score = 0
  /\ result = <<>>
  /\ runs = <<>>
  /\ NoRequest
  /\ NoHelperCall
  /\ NoBatch

\* InvoiceProcessor._validate_totals on an InvoiceResult; the object is
\* passed by reference: the call is kept with the object as it was, the
\* return with the object as the call leaves it
call_validate_totals ==
  /\ helper_call = <<>>
  /\ \E invoice \in InvoiceResults :
       /\ helper_call' = <<[fn |-> "_validate_totals", result |-> invoice]>>
       /\ helper_ret' = <<_validate_totals(invoice)>>
  /\ UNCHANGED <<extracted_fields, today, pc, locals, result, runs,
                 handler_vars, batch_vars>>

NextInvoice == call_validate_totals

SpecInvoice == InitInvoice /\ [][NextInvoice]_vars

\* ------------------------------------------------------------------------
\* One call of the signature-region heuristic
\* ------------------------------------------------------------------------
MaxSignLines == 2

\* the polygons of the lines: none, empty, a box at the top left, a box at
\* the bottom right, a box touching the borders of the region, a slanted
\* line from the top right to the bottom left, and three numbers
PolygonInputs ==
  { None,
    Some(<<>>),
    Some(<<100, 100, 300, 100, 300, 150, 100, 150>>),
    Some(<<600, 800, 900, 800, 900, 850, 600, 850>>),
    Some(<<400, 700, 500, 700, 500, 750, 400, 750>>),
    Some(<<600, 100, 650, 150, 150, 800, 100, 750>>),
    Some(<<600, 100, 800>>) }

PageLineInputs ==
  UNION { [1..n -> {[polygon |-> p] : p \in PolygonInputs}] :
            n \in 0..MaxSignLines }

\* a page: its size (0 when the layout gives none) and its lines
PageInputs ==
  { [height |-> h, width |-> w, lines |-> ls] :
      h \in {0, 1000}, w \in {0, 1000, 2000}, ls \in PageLineInputs }

\* a second page, with a line in the region
SecondPage ==
  [height |-> 1000, width |-> 1000,
   lines |-> <<[polygon |-> Some(<<600, 800, 900, 800, 900, 850, 600, 850>>)]>>]

RawResults ==
  { None, Some([pages |-> <<>>]) }
  \cup { Some([pages |-> <<p>>]) : p \in PageInputs }
  \cup { Some([pages |-> <<p, SecondPage>>]) : p \in PageInputs }

InitSign ==
  /\ extracted_fields = <<>>
  /\ today = Days[1]
  /\ pc = "idle"
  /\ field_map = <<>>
  /\ checks_passed = <<>>
  /\ checks_failed = <<>>
  /\ flags = <<>>
  /\ risk_score = 0
  /\ result = <<>>
  /\ runs = <<>>
  /\ NoRequest
  /\ NoHelperCall
  /\ NoBatch

\* ChequeProcessor._detect_signature_region on a layout result
call_detect_signature_region ==
  /\ helper_call = <<>>
  /\ \E raw_result \in RawResults :
       /\ helper_call' = <<[fn |-> "_detect_signature_region",
                            raw_result |-> raw_result]>>
       /\ helper_ret' = <<_detect_signature_region(raw_result)>>
  /\ UNCHANGED <<extracted_fields, today, pc, locals, result, runs,
                 handler_vars, batch_vars>>

NextSign == call_detect_signature_region

SpecSign == InitSign /\ [][NextSign]_vars

\* ------------------------------------------------------------------------
\* One call of the invoice line-item reconstruction
\* ------------------------------------------------------------------------
MaxItems == 2

s_Pen == <<"P", "e", "n">>

\* a value of a line item with its four representations
ItemValue(value_string, value_number, value_currency, content) ==
  [value_string |-> value_string, value_number |-> value_number,
   value_currency |-> value_currency, content |-> content]

Currency(amount) == Some([amount |-> amount])

ItemValues ==
  { ItemValue(Some(s_Pen), None, None, Some(s_Pen)),
    ItemValue(Some(s_Pen), Some(3), None, Some(<<"3">>)),
    ItemValue(None, Some(3), None, Some(<<"3">>)),
    ItemValue(None, Some(0), None, Some(<<"0">>)),
    ItemValue(None, Some(0), None, None),
    ItemValue(None, Some(0), Currency(7), None),
    ItemValue(None, None, Currency(500), Some(<<"$", "5">>)),
    ItemValue(None, None, Currency(0), None),
    ItemValue(Some(<<>>), Some(2), None, None),
    ItemValue(None, None, None, Some(<<"x">>)),
    ItemValue(None, None, None, None) }

\* the items of an invoice: without object, with an empty object, with a
\* quantity, or with a description and a quantity
ItemInputs ==
  { [value_object |-> None], [value_object |-> Some(<<>>)] }
  \cup { [value_object |-> Some([key \in {"Quantity"} |-> v])] :
           v \in ItemValues }
  \cup { [value_object |->
            Some([key \in {"Description", "Quantity"} |->
                    IF key = "Quantity" THEN v
                    ELSE ItemValue(Some(s_Pen), None, None, None)])] :
           v \in ItemValues }

ItemArrays ==
  UNION { [1..n -> ItemInputs] : n \in 0..MaxItems }

InvoiceDocument(items) ==
  [fields |-> Some([key \in {"Items"} |-> [value_array |-> items]])]

\* a document without fields, one without Items field
BareDocuments ==
  { [fields |-> None],
    [fields |-> Some([key \in {"VendorName"} |-> [value_array |-> <<>>]])] }

InvoiceRawResults ==
  { None, Some([documents |-> <<>>]) }
  \cup { Some([documents |-> <<d>>]) : d \in BareDocuments }
  \cup { Some([documents |-> <<InvoiceDocument(items)>>]) :
           items \in ItemArrays }
  \cup { Some([documents |-> <<InvoiceDocument(items), d,
                               InvoiceDocument(items)>>]) :
           items \in ItemArrays, d \in BareDocuments }

InitItems ==
  /\ extracted_fields = <<>>
  /\ today = Days[1]
  /\ pc = "idle"
  /\ field_map = <<>>
  /\ checks_passed = <<>>
  /\ checks_failed = <<>>
  /\ flags = <<>>
  /\ risk_score = 0
  /\ result = <<>>
  /\ runs = <<>>
  /\ NoRequest
  /\ NoHelperCall
  /\ NoBatch

\* InvoiceProcessor._extract_line_items on a layout result
call_extract_line_items ==
  /\ helper_call = <<>>
  /\ \E raw_result \in InvoiceRawResults :
       /\ helper_call' = <<[fn |-> "_extract_line_items",
                            raw_result |-> raw_result]>>
       /\ helper_ret' = <<_extract_line_items(raw_result)>>
  /\ UNCHANGED <<extracted_fields, today, pc, locals, result, runs,
                 handler_vars, batch_vars>>

NextItems == call_extract_line_items

SpecItems == InitItems /\ [][NextItems]_vars

\* ------------------------------------------------------------------------
\* One call of the amount-in-figures extractor
\* ------------------------------------------------------------------------
\* the pieces of the text of a cheque around its amount: what precedes it,
\* a currency before it, the number, and what follows
AmountLeads ==
  { <<>>,
    <<"N", "o", " ", "1", "2", " ">>,
    <<"*", "*">> }

AmountCurrencies ==
  { <<>>,
    <<"A", "E", "D", " ">>,
    <<"a", "e", "d">>,
    <<"$">>,
    <<"R", "s", ".", " ">>,
    <<"D", "o", "l", "l", "a", "r", "s", " ">> }

AmountNumbers ==
  { <<"5", "0", ",", "0", "0", "0", ".", "0", "0">>,
    <<"5", "0", "0">>,
    <<",">>,
    <<"7", ".">>,
    <<"1", ".", "2", ".", "3">> }

AmountTails ==
  { <<>>,
    <<" ", "d", "u", "e">>,
    <<" ", "A", "E", "D">>,
    <<"/", "-">>,
    <<"*", "*">>,
    <<" ", "*">>,
    <<" ", "u", "s", "d", " ", "o", "r", " ", "$", "7">>,
    <<"*", "*", "*", " ", "9", " ", "i", "n", "r">> }

AmountTexts ==
  { l \o c \o n \o t : l \in AmountLeads, c \in AmountCurrencies,
                       n \in AmountNumbers, t \in AmountTails }

InitAmount ==
  /\ extracted_fields = <<>>
  /\ today = Days[1]
  /\ pc = "idle"
  /\ field_map = <<>>
  /\ checks_passed = <<>>
  /\ checks_failed = <<>>
  /\ flags = <<>>
  /\ risk_score = 0
  /\ result = <<>>
  /\ runs = <<>>
  /\ NoRequest
  /\ NoHelperCall
  /\ NoBatch

\* ChequeProcessor._extract_amount_figures on the text of a cheque
call_extract_amount_figures ==
  /\ helper_call = <<>>
  /\ \E text \in AmountTexts :
       /\ helper_call' = <<[fn |-> "_extract_amount_figures",
                            text |-> text]>>
       /\ helper_ret' = <<_extract_amount_figures(text)>>
  /\ UNCHANGED <<extracted_fields, today, pc, locals, result, runs,
                 handler_vars, batch_vars>>

NextAmount == call_extract_amount_figures

SpecAmount == InitAmount /\ [][NextAmount]_vars

\* ------------------------------------------------------------------------
\* One call of the payee extractor
\* ------------------------------------------------------------------------
\* the pieces of the text of a cheque around its payee: the lines before,
\* the keyword and its separator, the name, and what follows
PayeeLeads ==
  { <<>>,
    <<"D", "a", "t", "e", " ", "0", "1", "/", "0", "2", "/", "2", "0", "2", "4", "\n">>,
    <<"R", "e", "p", "a", "y", "a", "b", "l", "e", "\n">> }

PayeeKeywords ==
  { <<"P", "a", "y", " ", "t", "o", " ">>,
    <<"P", "a", "y", " ">>,
    <<"P", "A", "Y", " ", "T", "O", ":", " ">>,
    <<"P", "a", "y", "e", "e", ":", " ">>,
    <<"P", "a", "y", "e", "e", " ">>,
    <<"P", "a", "i", "d", " ">>,
    <<"P", "a", "y", " ", ":", "\n">> }

PayeeNames ==
  { <<"J", "o", "h", "n", " ", "S", "m", "i", "t", "h">>,
    <<"A", "c", "m", "e">> }

PayeeTails ==
  { <<>>,
    <<" ", "o", "r", " ", "o", "r", "d", "e", "r">>,
    <<" ", "o", "r", " ", "b", "e", "a", "r", "e", "r">>,
    <<"\n", "A", "E", "D", " ", "5", "0", "0">>,
    <<" ", "O", "R", " ", "O", "R", "D", "E", "R", "\n", "x">>,
    <<" ", "o", "r">> }

PayeeTexts ==
  { l \o k \o n \o t : l \in PayeeLeads, k \in PayeeKeywords,
                       n \in PayeeNames, t \in PayeeTails }

InitPayee ==
  /\ extracted_fields = <<>>
  /\ today = Days[1]
  /\ pc = "idle"
  /\ field_map = <<>>
  /\ checks_passed = <<>>
  /\ checks_failed = <<>>
  /\ flags = <<>>
  /\ risk_score = 0
  /\ result = <<>>
  /\ runs = <<>>
  /\ NoRequest
  /\ NoHelperCall
  /\ NoBatch

\* ChequeProcessor._extract_payee on the text of a cheque
call_extract_payee ==
  /\ helper_call = <<>>
  /\ \E text \in PayeeTexts :
       /\ helper_call' = <<[fn |-> "_extract_payee", text |-> text]>>
       /\ helper_ret' = <<_extract_payee(text)>>
  /\ UNCHANGED <<extracted_fields, today, pc, locals, result, runs,
                 handler_vars, batch_vars>>

NextPayee == call_extract_payee

SpecPayee == InitPayee /\ [][NextPayee]_vars

\* ------------------------------------------------------------------------
\* The pre-screen and the validator on the same customer
\* ------------------------------------------------------------------------
s_Haiti == <<"H", "a", "i", "t", "i">>

s_Philippines == <<"P", "h", "i", "l", "i", "p", "p", "i", "n", "e", "s">>

\* every country either side lists, and one neither lists
ScreenNationalities ==
  {FATF_HIGH_RISK[i] : i \in 1..Len(FATF_HIGH_RISK)}
  \cup {FATF_INCREASED_MONITORING[i] : i \in 1..Len(FATF_INCREASED_MONITORING)}
  \cup {HIGH_RISK_COUNTRIES[i] : i \in 1..Len(HIGH_RISK_COUNTRIES)}
  \cup {s_UAE}

\* a complete KYC form of a customer of the nationality
ScreenForms ==
  { << ExtractedField("customer_name", Some(s_AhmedAli), 90),
       ExtractedField("date_of_birth", Some(s_DateOfBirth), 90),
       ExtractedField("nationality", Some(n), 90),
       ExtractedField("source_of_funds", Some(s_Salary), 90),
       ExtractedField("occupation", Some(o), 90) >> \o p :
      n \in ScreenNationalities,
      o \in {s_Engineer, s_CasinoManager},
      p \in { <<>>,
              <<ExtractedField("politically_exposed", Some(s_yes), 90)>> } }

\* the mapping the pre-screen is handed for a form: its values by key
ScreenData(fields) ==
  [k \in DOMAIN FieldMap(fields) |-> FieldMap(fields)[k].value]

InitScreen ==
  /\ extracted_fields \in ScreenForms
  /\ today = Days[1]
  /\ pc = "call"
  /\ field_map = <<>>
  /\ checks_passed = <<>>
  /\ checks_failed = <<>>
  /\ flags = <<>>
  /\ risk_score = 0
  /\ result = <<>>
  /\ runs = <<>>
  /\ NoRequest
  /\ NoHelperCall
  /\ NoBatch

\* KYCProcessor._calculate_risk_rating on the values of the form
call_pre_screen ==
  /\ helper_call = <<>>
  /\ helper_call' =
       <<[fn |-> "_calculate_risk_rating",
          kyc_data |-> ScreenData(extracted_fields)]>>
  /\ helper_ret' =
       <<[rating |-> _calculate_risk_rating(ScreenData(extracted_fields)),
          risk_score |-> KycRiskScore(ScreenData(extracted_fields))]>>
  /\ UNCHANGED <<extracted_fields, today, pc, locals, result, runs,
                 handler_vars, batch_vars>>

NextScreen ==
  \/ validate_kyc_begin
  \/ validate_kyc_check1
  \/ validate_kyc_check2
  \/ validate_kyc_check3
  \/ validate_kyc_check4
  \/ validate_kyc_check5
  \/ validate_kyc_check6
  \/ validate_kyc_return
  \/ call_pre_screen

SpecScreen == InitScreen /\ [][NextScreen]_vars

\* ------------------------------------------------------------------------
\* Vocabulary of the properties
\* ------------------------------------------------------------------------
Done == pc = "done"

\* the ValidationResult of the finished call
R == result[1]

CheckNames ==
  <<"completeness", "id_validity", "sanctions", "jurisdiction", "pep",
    "confidence">>

\* the literal texts each check can append, whichever list they land in
CheckTexts ==
  [completeness |-> {"Missing required fields: ",
                     "All required KYC fields present"},
   id_validity  |-> {"ID document expired: ",
                     "ID document is valid and not expired",
                     "ID expiry date format unrecognized - manual check needed",
                     "ID expiry check skipped - no expiry field found"},
   sanctions    |-> {"SANCTIONS MATCH: ", "Sanctions screening: CLEAR",
                     "Sanctions screening skipped - no name found"},
   jurisdiction |-> {"FATF High-Risk Jurisdiction: ",
                     "FATF Increased Monitoring: ", "Jurisdiction check: ",
                     "Jurisdiction check skipped - no nationality found"},
   pep          |-> {"Customer is a Politically Exposed Person (PEP)",
                     "PEP check: Not a PEP",
                     "PEP check skipped - no PEP field found"},
   confidence   |-> {"Low confidence on critical fields: ",
                     "All critical fields meet confidence threshold"}]

\* position (1..6) of the check an entry belongs to, 0 for a foreign entry
CheckIndex(msg) ==
  IF \E k \in 1..6 : msg.text \in CheckTexts[CheckNames[k]]
    THEN CHOOSE k \in 1..6 : msg.text \in CheckTexts[CheckNames[k]]
    ELSE 0

IndexesOf(list) == {CheckIndex(list[i]) : i \in 1..Len(list)}

\* the deltas as the validator's contract states them, in hundredths
ContractDelta == <<15, 10, 50, 30, 25, 10>>

RECURSIVE SumDeltas(_)
SumDeltas(S) ==
  IF S = {} THEN 0
  ELSE LET k == CHOOSE x \in S : TRUE
       IN ContractDelta[k] + SumDeltas(S \ {k})

InSeq(x, list) == \E i \in 1..Len(list) : list[i] = x

\* ------------------------------------------------------------------------
\* C1: the returned status is passed exactly when checks_failed is empty
\* (recommendation APPROVED); with a failed check it is failed when the
\* clamped risk_score is >= 0.5 (REJECT) and needs_manual_review otherwise
\* (REVIEW); pending is never returned.
\* ------------------------------------------------------------------------
C1_VerdictDerivation ==
  Done =>
    /\ (R.status = "passed") <=> (R.checks_failed = <<>>)
    /\ R.checks_failed = <<>> =>
         R.recommendation = "APPROVED - All compliance checks passed."
    /\ (R.checks_failed # <<>> /\ R.risk_score >= 50) =>
         /\ R.status = "failed"
         /\ R.recommendation =
              "REJECT - High-risk indicators detected. Escalate to compliance."
    /\ (R.checks_failed # <<>> /\ R.risk_score < 50) =>
         /\ R.status = "needs_manual_review"
         /\ R.recommendation =
              "REVIEW - Some checks failed. Manual review required by compliance officer."
    /\ R.status # "pending"
    /\ R.status \in ValidationStatus

\* a call that ends exactly on the rejection threshold
C1_Witness ==
  Done /\ R.checks_failed # <<>> /\ R.risk_score = 50 /\ R.status = "failed"

\* ------------------------------------------------------------------------
\* C2: the returned risk_score is min(1.0, sum of the deltas of the checks
\* that failed), deltas 0.15 / 0.10 / 0.50 / 0.30 / 0.25 / 0.10; the sum is
\* taken over the set of failed checks, whatever their order; the result is
\* within [0,1], also when all six checks fail (raw sum 1.40).
\* ------------------------------------------------------------------------
C2_RiskScoreIsClampedSum ==
  Done =>
    /\ R.risk_score = Min(100, SumDeltas(IndexesOf(R.checks_failed)))
    /\ R.risk_score \in 0..100
    /\ Cardinality(IndexesOf(R.checks_failed)) = 6 => R.risk_score = 100

\* all six checks fail in one call
C2_Witness ==
  Done /\ Len(R.checks_failed) = 6 /\ R.risk_score = 100

\* ------------------------------------------------------------------------
\* C3: a call runs the six checks once each in the fixed order; each check
\* appends exactly one entry to exactly one of the two lists, so that after
\* k checks the lists hold k entries, one per check 1..k, no check in both,
\* each list in check order; after the call the two lengths add up to 6.
\* ------------------------------------------------------------------------
ChecksRun ==
  CASE pc = "check1" -> 0
    [] pc = "check2" -> 1
    [] pc = "check3" -> 2
    [] pc = "check4" -> 3
    [] pc = "check5" -> 4
    [] pc = "check6" -> 5
    [] pc \in {"verdict", "done"} -> 6
    [] OTHER -> 0

Increasing(list) ==
  \A i, j \in 1..Len(list) : i < j => CheckIndex(list[i]) < CheckIndex(list[j])

C3_OneEntryPerCheckInOrder ==
  pc # "call" =>
    /\ Len(checks_passed) + Len(checks_failed) = ChecksRun
    /\ IndexesOf(checks_passed) \cup IndexesOf(checks_failed) = 1..ChecksRun
    /\ IndexesOf(checks_passed) \cap IndexesOf(checks_failed) = {}
    /\ Increasing(checks_passed)
    /\ Increasing(checks_failed)
    /\ Done => /\ Len(R.checks_passed) + Len(R.checks_failed) = 6
               /\ R.checks_passed = checks_passed
               /\ R.checks_failed = checks_failed

\* a finished call with entries in both lists
C3_Witness ==
  Done /\ Len(R.checks_passed) = 3 /\ Len(R.checks_failed) = 3

\* ------------------------------------------------------------------------
\* The field list as the properties read it
\* ------------------------------------------------------------------------
\* the field the map holds for a name: the last one of the list, <<>> if none
Slot(name) ==
  LET at == {i \in 1..Len(extracted_fields) :
               extracted_fields[i].field_name = name}
  IN IF at = {} THEN <<>>
     ELSE <<extracted_fields[CHOOSE i \in at : \A j \in at : j <= i]>>

\* the name has a field with a value other than None and ""
Present(name) ==
  /\ Slot(name) # <<>>
  /\ Slot(name)[1].value # <<>>
  /\ Slot(name)[1].value # << <<>> >>

\* the str held for a name that is Present
ValueOf(name) == Slot(name)[1].value[1]

RequiredNames ==
  {"customer_name", "date_of_birth", "nationality", "source_of_funds",
   "occupation"}

\* the required names without a value, in the order of the requirement list
MissingNames ==
  LET Lacks(n) == ~Present(n)
  IN SelectSeq(<<"customer_name", "date_of_birth", "nationality",
                 "source_of_funds", "occupation">>, Lacks)

\* the names of the listed fields that are required and below 0.80, in list order
LowNames ==
  LET Low(f) == f.field_name \in RequiredNames /\ f.confidence < 80
      low == SelectSeq(extracted_fields, Low)
  IN [i \in 1..Len(low) |-> low[i].field_name]

\* s is t in some letter casing (t given in lower case)
SameIgnoringCase(s, t) ==
  /\ Len(s) = Len(t)
  /\ \A i \in 1..Len(t) :
       \/ s[i] = t[i]
       \/ \E k \in 1..26 : LowerAlpha[k] = t[i] /\ UpperAlpha[k] = s[i]

PepDeclared ==
  /\ Present("politically_exposed")
  /\ \/ SameIgnoringCase(ValueOf("politically_exposed"), <<"y", "e", "s">>)
     \/ SameIgnoringCase(ValueOf("politically_exposed"), <<"t", "r", "u", "e">>)
     \/ ValueOf("politically_exposed") = <<"1">>

NamedHighRisk ==
  { <<"I", "r", "a", "n">>,
    <<"N", "o", "r", "t", "h", " ", "K", "o", "r", "e", "a">>,
    <<"M", "y", "a", "n", "m", "a", "r">> }

NationalityHighRisk ==
  Present("nationality") /\ ValueOf("nationality") \in NamedHighRisk

NationalityMonitored ==
  /\ Present("nationality")
  /\ InList(ValueOf("nationality"), FATF_INCREASED_MONITORING)

\* the customer name screened carries a sanctions keyword
NameSanctioned ==
  LET n == IF Slot("customer_name") # <<>> THEN "customer_name" ELSE "full_name"
  IN /\ Present(n)
     /\ \E i \in 1..Len(SANCTIONS_KEYWORDS) :
          Contains(Lower(ValueOf(n)), SANCTIONS_KEYWORDS[i])

\* the expiry field consulted parses to a date before today
IdExpired ==
  LET n == IF Slot("expiry_date") # <<>> THEN "expiry_date" ELSE "id_expiry"
  IN /\ Present(n)
     /\ \E i \in 1..3 :
          /\ strptime(ValueOf(n), DATE_FORMATS[i]) # ValueError
          /\ \A j \in 1..(i - 1) : strptime(ValueOf(n), DATE_FORMATS[j]) = ValueError
          /\ DateLess(strptime(ValueOf(n), DATE_FORMATS[i]), today)

\* all five required fields present, benign, at confidence >= 0.80
CompleteBenignForm ==
  /\ \A n \in RequiredNames : Present(n)
  /\ LowNames = <<>>
  /\ ~NameSanctioned
  /\ ~NationalityHighRisk
  /\ ~InList(Strip(ValueOf("nationality")), FATF_HIGH_RISK)
  /\ ~InList(Strip(ValueOf("nationality")), FATF_INCREASED_MONITORING)
  /\ ~PepDeclared

\* ------------------------------------------------------------------------
\* C4 as stated: a complete benign form at confidence >= 0.80 is passed with
\* risk_score < 0.2 and no failed check, whatever other fields the map holds.
\* ------------------------------------------------------------------------
C4_AsStated_AnyOtherFields ==
  (Done /\ CompleteBenignForm) =>
     /\ R.status = "passed"
     /\ R.risk_score < 20
     /\ R.checks_failed = <<>>

\* ------------------------------------------------------------------------
\* C4 amended: a complete benign form at confidence >= 0.80 whose expiry
\* field, if any, does not parse to a date before today is passed with
\* risk_score 0 and no failed check, whatever other fields the map holds.
\* ------------------------------------------------------------------------
C4_CompleteFormPassesUnlessExpired ==
  (Done /\ CompleteBenignForm /\ ~IdExpired) =>
     /\ R.status = "passed"
     /\ R.risk_score < 20
     /\ R.risk_score = 0
     /\ R.checks_failed = <<>>

\* a complete benign form with an ID expiring today and a low-confidence
\* text line
C4_Witness ==
  /\ Done /\ CompleteBenignForm /\ ~IdExpired
  /\ Present("expiry_date")
  /\ \E i \in 1..Len(extracted_fields) :
       /\ extracted_fields[i].field_name = "text_line"
       /\ extracted_fields[i].confidence < 80
  /\ R.status = "passed"

\* ------------------------------------------------------------------------
\* C5: when a required field is absent from the map or has a None/empty
\* value, checks_failed holds the entry "Missing required fields: " naming
\* exactly the missing fields, the completeness check adds 0.15, and the
\* status is failed or needs_manual_review.
\* ------------------------------------------------------------------------
C5_MissingFieldsNeverPass ==
  /\ pc = "check2" =>
       IF MissingNames # <<>>
         THEN /\ risk_score = 15
              /\ checks_failed =
                   << Msg("Missing required fields: ", Join(", ", MissingNames)) >>
         ELSE risk_score = 0 /\ checks_failed = <<>>
  /\ (Done /\ MissingNames # <<>>) =>
       /\ InSeq(Msg("Missing required fields: ", Join(", ", MissingNames)),
                R.checks_failed)
       /\ R.checks_failed[1].text = "Missing required fields: "
       /\ R.risk_score >= 15
       /\ R.status \in {"failed", "needs_manual_review"}

\* a field that is in the map with an empty value is reported with an
\* absent one
C5_Witness ==
  /\ Done
  /\ Slot("occupation") # <<>> /\ ~Present("occupation")
  /\ Slot("date_of_birth") = <<>>
  /\ Len(MissingNames) = 2
  /\ R.status = "needs_manual_review"

\* ------------------------------------------------------------------------
\* C6: a nationality value that is a FATF high-risk entry (Iran, North
\* Korea, Myanmar) puts FATF_HIGH_RISK in flags and makes risk_score >= 0.3
\* whatever the other fields; a nationality on the increased-monitoring list
\* gives FATF_MONITORING with the same 0.30 added; the two flags are never
\* emitted together.
\* ------------------------------------------------------------------------
C6_JurisdictionFlags ==
  /\ (Done /\ NationalityHighRisk) =>
       /\ InSeq("FATF_HIGH_RISK", R.flags)
       /\ R.risk_score >= 30
  /\ (Done /\ NationalityMonitored) =>
       /\ InSeq("FATF_MONITORING", R.flags)
       /\ R.risk_score >= 30
  /\ ~(InSeq("FATF_HIGH_RISK", flags) /\ InSeq("FATF_MONITORING", flags))
  /\ Done => R.flags = flags
  \* right after the jurisdiction check: what the earlier checks added, + 0.30
  /\ (pc = "check5" /\ (NationalityHighRisk \/ NationalityMonitored)) =>
       risk_score = SumDeltas(IndexesOf(checks_failed) \ {4}) + 30

\* Iran together with failures of other checks, and the score still below
\* the cap
C6_Witness ==
  /\ Done /\ NationalityHighRisk
  /\ InSeq("FATF_HIGH_RISK", R.flags)
  /\ InSeq("PEP_IDENTIFIED", R.flags)
  /\ R.risk_score = 55

\* ------------------------------------------------------------------------
\* C7: a politically_exposed value of "yes" in any letter casing (likewise
\* "true", "1") puts PEP_IDENTIFIED in flags, lists the PEP check in
\* checks_failed and makes risk_score > 0.2; an absent, empty or other
\* value lists the PEP check in checks_passed and adds nothing to the score.
\* ------------------------------------------------------------------------
PepEntries(list) == {i \in 1..Len(list) : CheckIndex(list[i]) = 5}

C7_PepStatus ==
  /\ Done =>
       IF PepDeclared
         THEN /\ InSeq("PEP_IDENTIFIED", R.flags)
              /\ InSeq(Msg("Customer is a Politically Exposed Person (PEP)",
                           <<>>), R.checks_failed)
              /\ PepEntries(R.checks_passed) = {}
              /\ R.risk_score > 20
         ELSE /\ ~InSeq("PEP_IDENTIFIED", R.flags)
              /\ PepEntries(R.checks_passed) # {}
              /\ PepEntries(R.checks_failed) = {}
  \* right after the PEP check: what the earlier checks added, + 0.25 or + 0
  /\ pc = "check6" =>
       risk_score = SumDeltas(IndexesOf(checks_failed) \ {5})
                      + (IF PepDeclared THEN 25 ELSE 0)

\* "YeS" is recognised
C7_Witness ==
  /\ Done /\ PepDeclared
  /\ ValueOf("politically_exposed") = <<"Y", "e", "S">>
  /\ R.flags = <<"PEP_IDENTIFIED">>
  /\ R.risk_score = 25

\* ------------------------------------------------------------------------
\* C8: when a listed field with one of the five required names has a
\* confidence < 0.80, checks_failed holds the entry "Low confidence on
\* critical fields: " listing the names of those fields, and 0.10 is added;
\* a confidence of exactly 0.80 is not low, and a field with another name
\* never fails the check.
\* ------------------------------------------------------------------------
C8_LowConfidenceOnRequiredFields ==
  /\ Done =>
       IF LowNames # <<>>
         THEN InSeq(Msg("Low confidence on critical fields: ",
                        Join(", ", LowNames)), R.checks_failed)
         ELSE InSeq(Msg("All critical fields meet confidence threshold", <<>>),
                    R.checks_passed)
  \* right after the confidence check: what the earlier checks added,
  \* + 0.10 or + 0
  /\ pc = "verdict" =>
       risk_score = SumDeltas(IndexesOf(checks_failed) \ {6})
                      + (IF LowNames # <<>> THEN 10 ELSE 0)

\* a required field at exactly 0.80 and a text line at 0.50 do not fail it
C8_Witness ==
  /\ Done /\ LowNames = <<>>
  /\ \E i \in 1..Len(extracted_fields) :
       /\ extracted_fields[i].field_name = "date_of_birth"
       /\ extracted_fields[i].confidence = 80
  /\ \E i \in 1..Len(extracted_fields) :
       /\ extracted_fields[i].field_name = "text_line"
       /\ extracted_fields[i].confidence = 50
  /\ InSeq(Msg("All critical fields meet confidence threshold", <<>>),
           R.checks_passed)

\* ------------------------------------------------------------------------
\* C9 as stated: two runs on the same field map return identical results;
\* the result depends on no state kept between calls and on no
\* time-dependent input such as the current date.
\* ------------------------------------------------------------------------
C9_AsStated_WhateverTheDate ==
  \A i, j \in 1..Len(runs) : runs[i].result = runs[j].result

\* ------------------------------------------------------------------------
\* C9 amended: two runs on the same field map on the same date return
\* identical results (status, checks_passed, checks_failed, risk_score,
\* flags, recommendation); no state is kept between calls, but the result
\* depends on the current date through the ID validity check.
\* ------------------------------------------------------------------------
C9_SameResultOnTheSameDay ==
  /\ \A i, j \in 1..Len(runs) :
       runs[i].today = runs[j].today => runs[i].result = runs[j].result
  /\ \A i \in 1..Len(runs) :
       runs[i].result = validate_kyc(extracted_fields, runs[i].today)

\* a second run on the same day, of a list with failed checks and flags
C9_Witness ==
  /\ Len(runs) = 2
  /\ runs[1].today = runs[2].today
  /\ runs[1].result = runs[2].result
  /\ Len(runs[2].result.checks_failed) >= 2
  /\ runs[2].result.flags # <<>>

\* ------------------------------------------------------------------------
\* Vocabulary of the properties of process_document
\* ------------------------------------------------------------------------
Returned == outcome = "returned"

\* the DocumentProcessResponse returned
Resp == response[1]

Completed == Returned /\ Resp.status = "completed"

ProcessingFailed == Returned /\ Resp.status = "failed"

\* the positions of the fields that are not OCR lines and lie below the
\* configured threshold
LowPositions ==
  { i \in 1..Len(Resp.extracted_fields) :
      /\ Resp.extracted_fields[i].field_name # "text_line"
      /\ Resp.extracted_fields[i].confidence < 85 }

NotPassed ==
  /\ Resp.validation # <<>>
  /\ Resp.validation[1].status # "passed"

ReviewRequested ==
  /\ Resp.needs_human_review
  /\ Resp.review_reason # <<>>
  /\ Resp.review_reason[1].text # ""

\* the pieces of the reason that are names of extracted fields, in order
NamesInReason ==
  SelectSeq(Resp.review_reason[1].arg,
            LAMBDA p : \E i \in 1..Len(Resp.extracted_fields) :
                          Resp.extracted_fields[i].field_name = p)

\* the names of the fields below the threshold, in the order of the list
RECURSIVE NamesAt(_, _)
NamesAt(i, positions) ==
  IF i > Len(Resp.extracted_fields) THEN <<>>
  ELSE (IF i \in positions
          THEN <<Resp.extracted_fields[i].field_name>>
          ELSE <<>>) \o NamesAt(i + 1, positions)

\* ------------------------------------------------------------------------
\* C10 as stated: a response for a document with a low-confidence field
\* other than text_line, a validation status other than passed, or a
\* processing failure has needs_human_review = true and a non-empty
\* review_reason that enumerates the triggering fields or checks (read
\* in the claim's favour: the fields when there are low ones, the failed
\* checks when only the validation asks for review).
\* ------------------------------------------------------------------------
C10_AsStated_ReasonEnumeratesChecks ==
  /\ ProcessingFailed => ReviewRequested
  /\ (Completed /\ LowPositions # {}) =>
       /\ ReviewRequested
       /\ \A i \in LowPositions :
            InSeq(Resp.extracted_fields[i].field_name,
                  Resp.review_reason[1].arg)
  /\ (Completed /\ LowPositions = {} /\ NotPassed) =>
       /\ ReviewRequested
       /\ \A k \in 1..Len(Resp.validation[1].checks_failed) :
            InSeq(Resp.validation[1].checks_failed[k].text,
                  Resp.review_reason[1].arg)

\* ------------------------------------------------------------------------
\* C10 amended: every response for a document with a low-confidence field
\* other than text_line, a validation status other than passed, or a
\* processing failure has needs_human_review = true and a non-empty
\* review_reason. The reason is "Processing error: ..." after a failure;
\* otherwise it names every low-confidence field, in list order, when
\* there is one; otherwise it is "Validation: " followed by the
\* validator's recommendation, and the failed checks are listed in
\* validation.checks_failed, not in the reason.
\* ------------------------------------------------------------------------
C10_ReviewRequestedWithReason ==
  /\ ProcessingFailed =>
       /\ ReviewRequested
       /\ Resp.review_reason[1].text = "Processing error: "
  /\ (Completed /\ LowPositions # {}) =>
       /\ ReviewRequested
       /\ Resp.review_reason[1].text = "Low confidence fields: "
       /\ NamesInReason = NamesAt(1, LowPositions)
  /\ (Completed /\ LowPositions = {} /\ NotPassed) =>
       /\ ReviewRequested
       /\ Resp.review_reason[1] =
            Msg("Validation: ", <<Resp.validation[1].recommendation>>)
       /\ Resp.validation[1].checks_failed # <<>>

\* a completed response with a low-confidence field and a rejected
\* validation
C10_Witness ==
  /\ Completed
  /\ LowPositions # {}
  /\ NotPassed
  /\ Resp.validation[1].status = "failed"
  /\ ReviewRequested

\* the value held for the name carries a sanctions keyword, in any casing
HoldsKeyword(name) ==
  /\ Present(name)
  /\ \E i \in 1..Len(SANCTIONS_KEYWORDS) :
       Contains(Lower(ValueOf(name)), Lower(SANCTIONS_KEYWORDS[i]))

\* ------------------------------------------------------------------------
\* C11 as stated: whenever the customer_name value or the full_name value
\* contains a sanctions keyword (case-insensitive substring), the
\* sanctions check fails, adds 0.50 to the score and emits SANCTIONS_HIT.
\* ------------------------------------------------------------------------
C11_AsStated_EitherNameIsScreened ==
  (/\ pc \in {"check4", "check5", "check6", "verdict", "done"}
   /\ HoldsKeyword("customer_name") \/ HoldsKeyword("full_name")) =>
    /\ 3 \in IndexesOf(checks_failed)
    /\ InSeq("SANCTIONS_HIT", flags)
    /\ pc = "check4" =>
         risk_score = SumDeltas(IndexesOf(checks_failed) \ {3}) + 50

\* ------------------------------------------------------------------------
\* Vocabulary of the properties of check_confidence
\* ------------------------------------------------------------------------
GateCalled == helper_call # <<>> /\ helper_ret # <<>>

GateArgs == helper_call[1]

GateRet == helper_ret[1]

\* the positions of the fields that are not text_line and lie strictly
\* below the threshold of the call
GateLowPositions ==
  { i \in 1..Len(GateArgs.fields) :
      /\ GateArgs.fields[i].field_name # "text_line"
      /\ GateArgs.fields[i].confidence < GateArgs.threshold }

\* the k-th smallest position of a set of positions
KthOf(k, positions) ==
  CHOOSE i \in positions : Cardinality({j \in positions : j <= i}) = k

\* the number written as d.dd in pieces 3 to 6 of a description
DescribedConfidence(description) ==
  ParseInt(<<description[3], description[5], description[6]>>)

\* ------------------------------------------------------------------------
\* C12: check_confidence returns all_ok = true iff no field other than
\* those named text_line has confidence < threshold (equal is not low),
\* returns exactly one description per low-confidence field, in input
\* order, each giving the field's name and confidence, and leaves the
\* field list unchanged.
\* ------------------------------------------------------------------------
C12_CheckConfidence ==
  GateCalled =>
    /\ GateRet.ok <=> (GateLowPositions = {})
    /\ Len(GateRet.low) = Cardinality(GateLowPositions)
    /\ \A k \in 1..Len(GateRet.low) :
         LET f == GateArgs.fields[KthOf(k, GateLowPositions)]
         IN /\ GateRet.low[k][1] = f.field_name
            /\ DescribedConfidence(GateRet.low[k]) = f.confidence
    /\ extracted_fields = GateArgs.fields

\* a list with an OCR line below the threshold, a field exactly on it and
\* two fields below it
C12_Witness ==
  /\ GateCalled
  /\ GateArgs.threshold = 85
  /\ Len(GateRet.low) = 2
  /\ GateRet.low[1][1] # GateRet.low[2][1]
  /\ \E i \in 1..Len(GateArgs.fields) :
       /\ GateArgs.fields[i].field_name = "text_line"
       /\ GateArgs.fields[i].confidence < 85

\* ------------------------------------------------------------------------
\* Vocabulary of the properties of batch_process
\* ------------------------------------------------------------------------
B == batch[1]

BatchReturned == batch_response # <<>>

\* what process_document does with the j-th file of the batch
ItemOutcome(j) ==
  Handle([B.files[j] EXCEPT !.document_type = B.document_type], today)

\* the responses of the first n files, in input order, the files whose
\* call raised left out
RECURSIVE ResponsesOfFirst(_)
ResponsesOfFirst(n) ==
  IF n = 0 THEN <<>>
  ELSE ResponsesOfFirst(n - 1)
       \o (IF ItemOutcome(n).outcome = "returned"
             THEN <<ItemOutcome(n).response[1]>> ELSE <<>>)

\* ------------------------------------------------------------------------
\* C13: batch_process handles the files one at a time in input order; an
\* item that raises or comes back FAILED neither stops the later items
\* nor discards the earlier results, and the call returns a
\* BatchProcessResponse whose total_documents is the number of files.
\* ------------------------------------------------------------------------
C13_BatchItemsAreIndependent ==
  batch # <<>> =>
    /\ B.i \in 1..(Len(B.files) + 1)
    /\ B.results = ResponsesOfFirst(B.i - 1)
    \* every turn of the loop accounts for exactly one file
    /\ Len(B.results) + B.failure_count = B.i - 1
    /\ BatchReturned =>
         /\ B.i = Len(B.files) + 1
         /\ batch_response[1].total_documents = Len(B.files)
         /\ batch_response[1].results = ResponsesOfFirst(Len(B.files))

\* a returned batch whose first file was refused, whose second came back
\* FAILED and whose third was completed
C13_Witness ==
  /\ batch # <<>>
  /\ BatchReturned
  /\ Len(B.files) = 3
  /\ ItemOutcome(1).outcome = "raised"
  /\ ItemOutcome(2).outcome = "returned"
  /\ ItemOutcome(2).response[1].status = "failed"
  /\ Len(batch_response[1].results) = 2
  /\ batch_response[1].results[2].status = "completed"

\* ------------------------------------------------------------------------
\* Vocabulary of the properties of the pipeline
\* ------------------------------------------------------------------------
\* the request handled
Rq == req[1]

\* the slots of a KYCFormResult that hold a field, as a list of fields in
\* the order of the result record
AssembledFields(kyc) ==
  LET slots == <<kyc.customer_name, kyc.date_of_birth, kyc.nationality,
                 kyc.occupation, kyc.employer, kyc.annual_income,
                 kyc.source_of_funds, kyc.purpose_of_account,
                 kyc.politically_exposed>>
      filled == SelectSeq(slots, LAMBDA x : x # <<>>)
  IN [i \in 1..Len(filled) |-> filled[i][1]]

\* the structured-extraction call returned all five required fields
OracleReturnedRequiredFields ==
  /\ Rq.gpt.ok
  /\ \A i \in 1..Len(REQUIRED_KYC_FIELDS) :
       Truthy(KycGet(Rq.gpt.data, REQUIRED_KYC_FIELDS[i]))

\* ------------------------------------------------------------------------
\* C14 as stated: the confidence gate and the validator examine the fields
\* the document-type assembler produced; in particular, for a kyc_form
\* whose structured-extraction call returns all five required fields with
\* benign values, the validator's completeness check passes.
\* ------------------------------------------------------------------------
C14_AsStated_ValidatorSeesAssembledFields ==
  (Completed /\ Resp.document_type = "kyc_form") =>
    /\ Resp.validation =
         Some(validate_kyc(AssembledFields(Resp.extraction_result[1]),
                           today))
    /\ OracleReturnedRequiredFields =>
         1 \in IndexesOf(Resp.validation[1].checks_passed)

\* the expiry field consulted has a value that no format parses
ExpiryUnparsed ==
  LET n == IF Slot("expiry_date") # <<>> THEN "expiry_date" ELSE "id_expiry"
  IN /\ Present(n)
     /\ \A i \in 1..Len(DATE_FORMATS) :
          strptime(ValueOf(n), DATE_FORMATS[i]) = ValueError

UnrecognizedEntry ==
  Msg("ID expiry date format unrecognized - manual check needed", <<>>)

\* ------------------------------------------------------------------------
\* C15: for every field list (arbitrary names, None, empty or malformed
\* values, any confidence) validate_kyc runs through its six checks and
\* returns a ValidationResult; an expiry value that parses under none of
\* the formats YYYY-MM-DD, DD/MM/YYYY, MM/DD/YYYY makes the ID validity
\* check pass with a caveat entry in checks_passed and adds nothing to
\* the score.
\* ------------------------------------------------------------------------
C15_NeverRaisesOnMalformedInput ==
  /\ pc \in {"call", "check1", "check2", "check3", "check4", "check5",
             "check6", "verdict", "done"}
  /\ Done =>
       /\ result # <<>>
       /\ R.status \in ValidationStatus
       /\ R.risk_score \in 0..100
       /\ Len(R.checks_passed) + Len(R.checks_failed) = 6
  /\ (ExpiryUnparsed /\ pc \notin {"call", "check1", "check2"}) =>
       /\ InSeq(UnrecognizedEntry, checks_passed)
       /\ 2 \notin IndexesOf(checks_failed)
       /\ pc = "check3" => risk_score = SumDeltas(IndexesOf(checks_failed))
       /\ Done => R.risk_score = Min(SumDeltas(IndexesOf(R.checks_failed)), 100)

\* a finished call on a list with an unparseable expiry date, missing
\* fields and other failed checks
C15_Witness ==
  /\ Done
  /\ ExpiryUnparsed
  /\ InSeq(UnrecognizedEntry, R.checks_passed)
  /\ Len(R.checks_failed) >= 2
  /\ MissingNames # <<>>

\* ------------------------------------------------------------------------
\* Vocabulary of the properties of the KYC assembler
\* ------------------------------------------------------------------------
RatingCalled ==
  /\ helper_call # <<>>
  /\ helper_ret # <<>>
  /\ helper_call[1].fn = "_calculate_risk_rating"

\* the mapping holds a non-empty string for the key
Held(data, key) ==
  /\ key \in DOMAIN data
  /\ data[key] # <<>>
  /\ data[key][1] # <<>>

\* the pre-screen score the contract gives a mapping, in hundredths
ContractPreScreen(data) ==
  LET country ==
        IF Held(data, "nationality")
           /\ \E i \in 1..Len(HIGH_RISK_COUNTRIES) :
                 Strip(data["nationality"][1]) = HIGH_RISK_COUNTRIES[i]
          THEN 40 ELSE 0
      job ==
        IF Held(data, "occupation")
           /\ \E i \in 1..Len(HIGH_RISK_OCCUPATIONS) :
                 Contains(Lower(data["occupation"][1]),
                          HIGH_RISK_OCCUPATIONS[i])
          THEN 30 ELSE 0
      pep ==
        /\ Held(data, "politically_exposed")
        /\ \/ SameIgnoringCase(data["politically_exposed"][1],
                               <<"y", "e", "s">>)
           \/ SameIgnoringCase(data["politically_exposed"][1],
                               <<"t", "r", "u", "e">>)
           \/ data["politically_exposed"][1] = <<"1">>
      absent == {n \in RequiredNames : ~Held(data, n)}
  IN (IF pep THEN (country + job) * 2 + 30 ELSE country + job)
     + 10 * Cardinality(absent)

\* ------------------------------------------------------------------------
\* C16: the KYC pre-screen score is 0.4 for a high-risk nationality plus
\* 0.3 for an occupation containing a high-risk substring (counted once);
\* then doubled plus 0.3 if the PEP value is yes/true/1; then plus 0.1 for
\* each of the five critical fields that is absent. The score is not
\* clamped, and the rating is very_high from 0.7, high from 0.4, medium
\* from 0.2, else low.
\* ------------------------------------------------------------------------
C16_PreScreenRating ==
  RatingCalled =>
    LET data == helper_call[1].kyc_data
        score == helper_ret[1].risk_score
        rating == helper_ret[1].rating
    IN /\ score = ContractPreScreen(data)
       /\ rating \in {"low", "medium", "high", "very_high"}
       /\ rating = "very_high" <=> score >= 70
       /\ rating = "high" <=> (score >= 40 /\ score < 70)
       /\ rating = "medium" <=> (score >= 20 /\ score < 40)
       /\ rating = "low" <=> score < 20

\* a politically exposed casino manager from Iran, name missing: the score
\* passes 1.0
C16_Witness ==
  /\ RatingCalled
  /\ helper_ret[1].risk_score = 180
  /\ helper_ret[1].rating = "very_high"
  /\ ~Held(helper_call[1].kyc_data, "customer_name")

\* ------------------------------------------------------------------------
\* Vocabulary of the properties of the MICR extractor
\* ------------------------------------------------------------------------
MicrCalled == helper_call # <<>> /\ helper_call[1].fn = "_extract_micr"

ChequeCalled ==
  /\ helper_call # <<>>
  /\ helper_call[1].fn = "process"
  /\ "fields" \in DOMAIN helper_call[1]

\* the text the cheque assembler searches
ChequeText == _build_text_content(extracted_fields)

AllSpace(s) == \A i \in 1..Len(s) : s[i] \in Whitespace

\* the text is six digits, whitespace, nine digits, whitespace and n3
\* digits, with w1 and w2 characters of whitespace, and nothing else
IsThreeGroups(text, w1, w2, n3) ==
  /\ Len(text) = 6 + w1 + 9 + w2 + n3
  /\ AllDigits(SubSeq(text, 1, 6))
  /\ AllSpace(SubSeq(text, 7, 6 + w1))
  /\ AllDigits(SubSeq(text, 7 + w1, 15 + w1))
  /\ AllSpace(SubSeq(text, 16 + w1, 15 + w1 + w2))
  /\ AllDigits(SubSeq(text, 16 + w1 + w2, Len(text)))

Layouts(text) ==
  { l \in (1..2) \X (1..2) \X (6..12) :
      IsThreeGroups(text, l[1], l[2], l[3]) }

\* the routing table entry of a three-digit prefix, "Unknown Bank" when
\* the table has none
TableEntry(prefix) ==
  LET rows == { i \in 1..Len(BANK_ROUTING_CODES) :
                  BANK_ROUTING_CODES[i].prefix = prefix }
  IN IF rows = {} THEN s_UnknownBank
     ELSE BANK_ROUTING_CODES[CHOOSE i \in rows : TRUE].name

s_MicrExample ==
  <<"1", "2", "3", "4", "5", "6", " ", "7", "8", "9", "0", "1", "2", "3", "4", "5", " ", "1", "2", "3", "4", "5", "6", "7", "8", "9", "0">>

\* C17: for a text of a 6-digit group, a 9-digit group and a 6-12-digit
\* group separated by whitespace, _extract_micr returns the first group as
\* cheque_number, the whole second group as routing_code and the third
\* group as account_number, and the cheque assembler sets bank_name to the
\* routing table entry of the first three digits of the second group, or
\* to "Unknown Bank" when the table has no such prefix
C17_MicrGroupsAndBank ==
  \A l \in Layouts(ChequeText) :
    LET first == SubSeq(ChequeText, 1, 6)
        second == SubSeq(ChequeText, 7 + l[1], 15 + l[1])
        third == SubSeq(ChequeText, 16 + l[1] + l[2], Len(ChequeText))
    IN /\ MicrCalled =>
            /\ helper_ret[1] # None
            /\ helper_ret[1][1].cheque_number = first
            /\ helper_ret[1][1].routing_code = second
            /\ helper_ret[1][1].account_number = third
       /\ ChequeCalled =>
            /\ helper_ret[1].bank_name # None
            /\ helper_ret[1].bank_name[1].value
                 = Some(TableEntry(SubSeq(second, 1, 3)))
            /\ helper_ret[1].cheque_number[1].value = Some(first)
            /\ helper_ret[1].account_number[1].value = Some(third)

\* "123456 789012345 1234567890" went through the assembler, which found
\* no bank for the prefix "789"
C17_Witness ==
  /\ ChequeCalled
  /\ ChequeText = s_MicrExample
  /\ Layouts(ChequeText) # {}
  /\ helper_ret[1].bank_name[1].value = Some(s_UnknownBank)

\* a text of three such groups whose routing prefix is in the table went
\* through the extractor
C17_KnownBankReached ==
  /\ MicrCalled
  /\ Layouts(ChequeText) # {}
  /\ TableEntry(SubSeq(helper_ret[1][1].routing_code, 1, 3)) # s_UnknownBank

\* ------------------------------------------------------------------------
\* Vocabulary of the properties of the invoice total cross-check
\* ------------------------------------------------------------------------
TotalsCalled == helper_call # <<>> /\ helper_call[1].fn = "_validate_totals"

\* the InvoiceResult handed to the cross-check
Checked == helper_call[1].result

\* the number a slot holds, in hundredths; <<>> when the slot is absent,
\* has no value or holds no number
NumberIn(slot) == IF slot = None THEN <<>> ELSE AmountOf(slot[1])

AllThreeParse ==
  /\ NumberIn(Checked.subtotal) # <<>>
  /\ NumberIn(Checked.tax_amount) # <<>>
  /\ NumberIn(Checked.total_amount) # <<>>

\* |subtotal + tax - total|, in hundredths
Discrepancy ==
  Abs(NumberIn(Checked.subtotal)[1] + NumberIn(Checked.tax_amount)[1]
        - NumberIn(Checked.total_amount)[1])

\* the call returned without raising and left the object as it was
LeftUnchanged ==
  /\ ~helper_ret[1].raised
  /\ helper_ret[1].result = Checked

\* C18: _validate_totals never raises and leaves every slot and the
\* line_items of the InvoiceResult unchanged, whatever the subtotal, tax
\* and total slots hold; when all three hold numbers it logs a warning
\* exactly when |subtotal + tax - total| > 0.01, and when one is missing or
\* holds no number it logs nothing
C18_AsStated_WarningIffAboveOneHundredth ==
  TotalsCalled =>
    /\ LeftUnchanged
    /\ AllThreeParse => (helper_ret[1].warning <=> Discrepancy > 1)
    /\ ~AllThreeParse => ~helper_ret[1].warning

\* the statement with the amounts exactly one hundredth apart set aside
C18_ApartFromOneHundredth ==
  TotalsCalled =>
    /\ LeftUnchanged
    /\ (AllThreeParse /\ Discrepancy # 1)
         => (helper_ret[1].warning <=> Discrepancy > 1)
    /\ ~AllThreeParse => ~helper_ret[1].warning

\* 100.00 + 5.00 against 105.01: one hundredth apart, and a warning
C18_OneHundredthWarned ==
  /\ TotalsCalled
  /\ AllThreeParse
  /\ Discrepancy = 1
  /\ helper_ret[1].warning

\* 0.10 + 0.20 against 0.31: one hundredth apart, and no warning
C18_OneHundredthSilent ==
  /\ TotalsCalled
  /\ AllThreeParse
  /\ Discrepancy = 1
  /\ ~helper_ret[1].warning

KycProcessCalled ==
  /\ helper_call # <<>>
  /\ helper_ret # <<>>
  /\ helper_call[1].fn = "process"
  /\ "answer" \in DOMAIN helper_call[1]

\* the mapping the structured-extraction oracle gave: empty when it failed
OracleMapping ==
  IF helper_call[1].answer.ok THEN helper_call[1].answer.data ELSE <<>>

\* the nine field slots of a KYCFormResult
KYC_SLOTS ==
  {"customer_name", "date_of_birth", "nationality", "occupation",
   "employer", "annual_income", "source_of_funds", "purpose_of_account",
   "politically_exposed"}

AbsentOrNull(data, key) == key \notin DOMAIN data \/ data[key] = None

\* C19: when the structured-extraction oracle fails, returns an empty
\* mapping, or omits or nulls any of its keys, the KYC assembler returns a
\* KYCFormResult in which every slot whose key is absent or null is
\* absent; for the empty mapping all nine slots are absent, id_documents
\* is empty and risk_rating is "high", the five missing critical fields
\* giving the score 0.5
C19_AbsentKeysGiveAbsentSlots ==
  /\ KycProcessCalled =>
       /\ \A key \in KYC_SLOTS :
            AbsentOrNull(OracleMapping, key) => helper_ret[1][key] = None
       /\ DOMAIN OracleMapping = {} =>
            /\ \A key \in KYC_SLOTS : helper_ret[1][key] = None
            /\ helper_ret[1].id_documents = <<>>
            /\ helper_ret[1].risk_rating = "high"
  /\ (RatingCalled /\ DOMAIN helper_call[1].kyc_data = {}) =>
       /\ helper_ret[1].rating = "high"
       /\ helper_ret[1].risk_score = 50

\* the oracle failed and the assembler returned the empty result
C19_Witness ==
  /\ KycProcessCalled
  /\ ~helper_call[1].answer.ok
  /\ \A key \in KYC_SLOTS : helper_ret[1][key] = None
  /\ helper_ret[1].id_documents = <<>>
  /\ helper_ret[1].risk_rating = "high"

\* a mapping with some keys, a null among them, went through the assembler
C19_PartialReached ==
  /\ KycProcessCalled
  /\ helper_call[1].answer.ok
  /\ \E key \in DOMAIN OracleMapping : OracleMapping[key] = None
  /\ \E key \in KYC_SLOTS : helper_ret[1][key] # None
  /\ \E key \in KYC_SLOTS : key \notin DOMAIN OracleMapping

\* ------------------------------------------------------------------------
\* Vocabulary of the properties of a failed layout analysis
\* ------------------------------------------------------------------------
\* an analysis that found nothing: extract returns the empty list for it
EmptyAnalyze == [documents |-> <<>>, lines |-> <<>>, tables |-> 0]

\* the request was accepted and its document type is one the handler knows
\* or classifies itself, so that the handler reaches extractor.extract
ReachedExtraction ==
  /\ req # <<>>
  /\ Rq.ext_ok /\ Rq.size_ok
  /\ \/ Rq.document_type = None
     \/ Rq.document_type[1] = ""
     \/ Rq.document_type[1] \in DocumentType

\* the layout analysis raised inside extractor.extract
LayoutOracleFailed == ReachedExtraction /\ Rq.fails = "extract"

\* what the handler answers to the same request when the analysis succeeds
\* and finds nothing
AnswerForNoFields ==
  Handle([Rq EXCEPT !.fails = "none", !.analyze = EmptyAnalyze], today)

\* C20 as stated: when the layout analysis fails during extraction its
\* error does not leave the extraction step, and the rest of the pipeline
\* proceeds as for an empty field list: the request is answered as the
\* same request with an analysis that found no field
C20_AsStated_OracleFailureIsEmptyExtraction ==
  LayoutOracleFailed =>
    /\ outcome = AnswerForNoFields.outcome
    /\ response = AnswerForNoFields.response

\* ------------------------------------------------------------------------
\* Vocabulary of the properties of the signature-region heuristic
\* ------------------------------------------------------------------------
SignCalled ==
  helper_call # <<>> /\ helper_call[1].fn = "_detect_signature_region"

\* the lines of the page the heuristic examines, none without a page
ExaminedLines ==
  IF helper_call[1].raw_result = None
     \/ helper_call[1].raw_result[1].pages = <<>>
    THEN <<>>
    ELSE helper_call[1].raw_result[1].pages[1].lines

ExaminedPage == helper_call[1].raw_result[1].pages[1]

\* the vertex (x, y) lies in the signature zone of the examined page
InZone(x, y) ==
  /\ 4 * y > 3 * OrDefault(ExaminedPage.height)
  /\ 2 * x > OrDefault(ExaminedPage.width)

\* some vertex of the line's polygon lies in the signature zone
HasVertexInZone(line) ==
  /\ line.polygon # None
  /\ \E k \in 1..(Len(line.polygon[1]) \div 2) :
        InZone(line.polygon[1][2 * k - 1], line.polygon[1][2 * k])

\* C21 as stated: the heuristic returns true iff some line of the page has
\* a vertex (x, y) of its polygon with y > 0.75 * height and
\* x > 0.5 * width for that same vertex; it returns false without a layout
\* result, pages, lines or polygons
C21_AsStated_SameVertexInZone ==
  SignCalled =>
    (helper_ret[1] <=>
       \E i \in 1..Len(ExaminedLines) : HasVertexInZone(ExaminedLines[i]))

\* the heuristic answered true for a page none of whose vertices lies in
\* the zone
C21_TrueWithoutVertexInZone ==
  /\ SignCalled
  /\ helper_ret[1]
  /\ \A i \in 1..Len(ExaminedLines) : ~HasVertexInZone(ExaminedLines[i])

\* ------------------------------------------------------------------------
\* Vocabulary of the properties of the line-item reconstruction
\* ------------------------------------------------------------------------
ItemsCalled ==
  helper_call # <<>> /\ helper_call[1].fn = "_extract_line_items"

\* the line-item objects of the source, in source order: the non-empty
\* value_object of every item of every document
RECURSIVE ObjectsOf(_)
ObjectsOf(documents) ==
  IF documents = <<>> THEN <<>>
  ELSE LET items ==
             IF documents[1].fields = None
                \/ "Items" \notin DOMAIN documents[1].fields[1]
               THEN <<>>
               ELSE documents[1].fields[1]["Items"].value_array
           objects == SelectSeq(items, LAMBDA item :
                        item.value_object # None
                        /\ item.value_object[1] # <<>>)
       IN [i \in 1..Len(objects) |-> objects[i].value_object[1]]
          \o ObjectsOf(Tail(documents))

SourceObjects ==
  IF helper_call[1].raw_result = None THEN <<>>
  ELSE ObjectsOf(helper_call[1].raw_result[1].documents)

\* a key with a numeric representation and no string representation
NumericOnly(val) ==
  /\ val.value_number # None
  /\ val.value_string = None \/ val.value_string[1] = <<>>

\* C22 as stated: the reconstruction returns one map per source line-item
\* object, in source order, and a key that has a numeric representation
\* and no string representation is stored with that number, for every
\* number, 0 included
C22_AsStated_EveryNumberIsStored ==
  ItemsCalled =>
    /\ Len(helper_ret[1]) = Len(SourceObjects)
    /\ \A i \in 1..Len(SourceObjects) :
         \A key \in DOMAIN SourceObjects[i] :
           NumericOnly(SourceObjects[i][key]) =>
             /\ key \in DOMAIN helper_ret[1][i]
             /\ helper_ret[1][i][key].number
                  = SourceObjects[i][key].value_number

\* the statement for the numbers other than 0, and for the strings
C22_ApartFromZero ==
  ItemsCalled =>
    /\ Len(helper_ret[1]) = Len(SourceObjects)
    /\ \A i \in 1..Len(SourceObjects) :
         \A key \in DOMAIN SourceObjects[i] :
           LET val == SourceObjects[i][key]
           IN /\ (NumericOnly(val) /\ val.value_number[1] # 0) =>
                   /\ key \in DOMAIN helper_ret[1][i]
                   /\ helper_ret[1][i][key].number = val.value_number
              /\ Truthy(val.value_string) =>
                   /\ key \in DOMAIN helper_ret[1][i]
                   /\ helper_ret[1][i][key].text = val.value_string

\* ------------------------------------------------------------------------
\* Vocabulary of the properties of the amount-in-figures extractor
\* ------------------------------------------------------------------------
AmountCalled ==
  helper_call # <<>> /\ helper_call[1].fn = "_extract_amount_figures"

AmountText == helper_call[1].text

\* the positions of the text from which each matcher matches, in the
\* order currency prefix, currency suffix, asterisks
MatchPositions(k) ==
  { p \in 1..Len(AmountText) :
      CASE k = 1 -> PrefixedAmountAt(AmountText, p) # None
        [] k = 2 -> SuffixedAmountAt(AmountText, p) # None
        [] k = 3 -> StarredAmountAt(AmountText, p) # None }

Leftmost(ps) == CHOOSE p \in ps : \A q \in ps : p <= q

\* what matcher k captures where it first matches
FirstCapture(k) ==
  LET p == Leftmost(MatchPositions(k))
  IN CASE k = 1 -> PrefixedAmountAt(AmountText, p)[1]
       [] k = 2 -> SuffixedAmountAt(AmountText, p)[1]
       [] k = 3 -> StarredAmountAt(AmountText, p)[1]

WithoutCommas(s) == SelectSeq(s, LAMBDA c : c # ",")

s_AmountExample ==
  <<"A", "E", "D", " ", "5", "0", ",", "0", "0", "0", ".", "0", "0", " ", "d", "u", "e">>

s_AmountExampleValue ==
  <<"5", "0", "0", "0", "0", ".", "0", "0">>

\* C23: the amount-in-figures extractor tries its matchers in the order
\* currency prefix, currency suffix, asterisks, and returns the capture of
\* the first one that matches anywhere in the text, wherever a later one
\* would match; the value is the capture without its commas, with
\* confidence 0.85 ("AED 50,000.00 due" gives "50000.00"), and the field
\* is absent when no matcher matches
C23_FirstMatcherWins ==
  AmountCalled =>
    /\ \A k \in 1..3 :
         (/\ MatchPositions(k) # {}
          /\ \A j \in 1..(k - 1) : MatchPositions(j) = {})
         => /\ helper_ret[1] # None
            /\ helper_ret[1][1].field_name = "amount_in_figures"
            /\ helper_ret[1][1].value = Some(WithoutCommas(FirstCapture(k)))
            /\ helper_ret[1][1].confidence = 85
    /\ (\A k \in 1..3 : MatchPositions(k) = {}) => helper_ret[1] = None
    /\ AmountText = s_AmountExample =>
         /\ helper_ret[1] # None
         /\ helper_ret[1][1].value = Some(s_AmountExampleValue)

\* the currency-prefix matcher gave the amount although the
\* currency-suffix matcher matches earlier in the text
C23_Witness ==
  /\ AmountCalled
  /\ MatchPositions(1) # {}
  /\ MatchPositions(2) # {}
  /\ Leftmost(MatchPositions(2)) < Leftmost(MatchPositions(1))
  /\ helper_ret[1] # None
  /\ helper_ret[1][1].value = Some(WithoutCommas(FirstCapture(1)))
  /\ WithoutCommas(FirstCapture(1)) # WithoutCommas(FirstCapture(2))

\* "AED 50,000.00 due" went through the extractor
C23_ExampleReached ==
  /\ AmountCalled
  /\ AmountText = s_AmountExample
  /\ helper_ret[1] # None

\* a text without amount went through the extractor
C23_AbsentReached == AmountCalled /\ helper_ret[1] = None

\* ------------------------------------------------------------------------
\* Vocabulary of the properties of duplicate field names
\* ------------------------------------------------------------------------
\* the list with, of the fields of each name, only the last one
LastOfEachName(fields) ==
  LET last == {i \in 1..Len(fields) :
                 \A j \in (i + 1)..Len(fields) :
                    fields[j].field_name # fields[i].field_name}
      Nth(k) == CHOOSE i \in last : Cardinality({j \in last : j <= i}) = k
  IN [k \in 1..Cardinality(last) |-> fields[Nth(k)]]

HasDuplicateName == LastOfEachName(extracted_fields) # extracted_fields

\* the verdict on the fields that were not overwritten
OnLastFields == validate_kyc(LastOfEachName(extracted_fields), today)

\* C24 as stated: with several fields of the same name in the list, every
\* one of the six checks, the confidence check included, considers only
\* the last field of each name: an overwritten duplicate has no effect on
\* checks_failed, flags or risk_score
C24_AsStated_OnlyLastFieldCounts ==
  Done =>
    /\ R.checks_failed = OnLastFields.checks_failed
    /\ R.flags = OnLastFields.flags
    /\ R.risk_score = OnLastFields.risk_score

\* the statement for the five checks that read the field map
C24_FirstFiveChecks ==
  pc = "check6" =>
    LET before == Check5(Check4(Check3(Check2(Check1(
                    Begin(LastOfEachName(extracted_fields))), today))))
    IN /\ checks_failed = before.checks_failed
       /\ flags = before.flags
       /\ risk_score = before.risk_score

\* ------------------------------------------------------------------------
\* Vocabulary of the properties of the separators of the MICR line
\* ------------------------------------------------------------------------
\* the number of characters from position p on that are whitespace or a
\* MICR symbol
RECURSIVE SeparatorRun(_, _)
SeparatorRun(text, p) ==
  IF p > Len(text)
     \/ text[p] \notin Whitespace \cup {MICR_TRANSIT, MICR_ON_US}
    THEN 0
    ELSE 1 + SeparatorRun(text, p + 1)

\* from position p the text holds 6 digits, 9 digits and at least 6
\* digits, each group separated from the next
SeparatedGroupsAt(text, p) ==
  LET a == p + 6
      b == a + SeparatorRun(text, a)
      c == b + 9
      d == c + SeparatorRun(text, c)
  IN /\ DigitRun(text, p) = 6
     /\ b > a
     /\ DigitRun(text, b) = 9
     /\ d > c
     /\ DigitRun(text, d) >= 6

HasSeparatedGroups(text) ==
  \E p \in 1..Len(text) : SeparatedGroupsAt(text, p)

\* C25 as stated: the MICR extractor matches only text whose three groups
\* of 6, 9 and 6-12 digits are separated from one another by whitespace or
\* a transit symbol; digits with no separator between the groups yield no
\* match, and cheque_number, micr_code, account_number and bank_name stay
\* absent
C25_AsStated_GroupsMustBeSeparated ==
  /\ MicrCalled =>
       (helper_ret[1] # None => HasSeparatedGroups(ChequeText))
  /\ (ChequeCalled /\ ~HasSeparatedGroups(ChequeText)) =>
       /\ helper_ret[1].cheque_number = None
       /\ helper_ret[1].micr_code = None
       /\ helper_ret[1].account_number = None
       /\ helper_ret[1].bank_name = None

\* the rest of the statement: the whitespace-delimited fallback is tried
\* only when the first pattern fails, and the first pattern matches
\* whenever the groups are separated
C25_FirstPatternFirst ==
  MicrCalled =>
    /\ SearchMicr(ChequeText) # None =>
         helper_ret[1] = Some(MicrData(SearchMicr(ChequeText)[1]))
    /\ HasSeparatedGroups(ChequeText) => helper_ret[1] # None

\* an unbroken run of digits was taken for a MICR line
C25_UnbrokenRunMatched ==
  /\ MicrCalled
  /\ AllDigits(ChequeText)
  /\ helper_ret[1] # None

\* ------------------------------------------------------------------------
\* C26  the payee of a cheque
\* ------------------------------------------------------------------------
PayeeCalled == helper_call # <<>> /\ helper_call[1].fn = "_extract_payee"

PayeeText == helper_call[1].text

s_PayTo == <<"P", "a", "y", " ", "t", "o", " ">>

s_OrOrder == <<" ", "o", "r", " ", "o", "r", "d", "e", "r">>

\* the text has a line "Pay to <name> or order" after lines without keyword
IsPayToLine(name) ==
  \E lead \in PayeeLeads : PayeeText = lead \o s_PayTo \o name \o s_OrOrder

HasPayeeKeyword(text) ==
  \E p \in 1..Len(text), i \in 1..Len(PAYEE_KEYWORDS) :
     TokenAt(text, p, PAYEE_KEYWORDS[i])

\* C26 as stated: for a line "Pay to <name> or order" the payee value is
\* exactly <name>, the keyword words not being part of it, with confidence
\* 0.80; the field is absent when the text holds no keyword.
C26_AsStated_PayToLineGivesName ==
  PayeeCalled =>
    /\ \A name \in PayeeNames :
          IsPayToLine(name) =>
            helper_ret[1] =
              Some(ExtractedField("payee_name", Some(name), PAYEE_CONFIDENCE))
    /\ ~HasPayeeKeyword(PayeeText) => helper_ret[1] = None

\* what the extractor does on such a line: "Pay" is the keyword taken, and
\* the word "to" opens the value
C26_PayToLineKeepsTo ==
  PayeeCalled =>
    \A name \in PayeeNames :
       IsPayToLine(name) =>
         helper_ret[1] =
           Some(ExtractedField("payee_name", Some(<<"t", "o", " ">> \o name),
                               PAYEE_CONFIDENCE))

\* the rest of the claim: no keyword, no payee; a payee has confidence 0.80
C26_AbsentWithoutKeyword ==
  PayeeCalled =>
    /\ ~HasPayeeKeyword(PayeeText) => helper_ret[1] = None
    /\ helper_ret[1] # None => helper_ret[1][1].confidence = PAYEE_CONFIDENCE

C26_PayToLineReached ==
  PayeeCalled /\ \E name \in PayeeNames : IsPayToLine(name)

C26_NoKeywordReached == PayeeCalled /\ ~HasPayeeKeyword(PayeeText)

\* ------------------------------------------------------------------------
\* C27  what the rejection threshold entails
\* ------------------------------------------------------------------------
SanctionsFlagged == InSeq("SANCTIONS_HIT", R.flags)

C27_EachSingleFailureReached(k) ==
  /\ Done /\ IndexesOf(R.checks_failed) = {k}
  /\ R.status = "needs_manual_review"

C27_CompletenessAloneReached == C27_EachSingleFailureReached(1)

C27_IdValidityAloneReached == C27_EachSingleFailureReached(2)

C27_JurisdictionAloneReached == C27_EachSingleFailureReached(4)

C27_PepAloneReached == C27_EachSingleFailureReached(5)

C27_ConfidenceAloneReached == C27_EachSingleFailureReached(6)

\* ------------------------------------------------------------------------
\* C28  the counts of a batch
\* ------------------------------------------------------------------------
BR == batch_response[1]

IsFailed(r) == r.status = "failed"

IsCompleted(r) == r.status = "completed"

NeedsReview(r) == r.needs_human_review

\* the files of the batch whose call of process_document raised
RaisedItems == {j \in 1..Len(B.files) : ItemOutcome(j).outcome = "raised"}

\* C28: in the response of batch_process, len(results) + failure_count is
\* total_documents and success_count is at most len(results); a response
\* of status FAILED is in results and counted in review_count, and in
\* neither success_count nor failure_count.
C28_BatchCounts ==
  BatchReturned =>
    /\ Len(BR.results) + BR.failure_count = BR.total_documents
    /\ BR.success_count <= Len(BR.results)
    /\ BR.results = ResponsesOfFirst(Len(B.files))
    /\ \A i \in 1..Len(BR.results) :
          IsFailed(BR.results[i]) => NeedsReview(BR.results[i])
    /\ BR.review_count = Len(SelectSeq(BR.results, NeedsReview))
    /\ BR.success_count = Len(SelectSeq(BR.results, IsCompleted))
    /\ BR.failure_count = Cardinality(RaisedItems)

\* a returned batch with a FAILED response: success_count + failure_count
\* is smaller than total_documents
C28_Witness ==
  /\ BatchReturned
  /\ \E i \in 1..Len(BR.results) : IsFailed(BR.results[i])
  /\ BR.review_count >= 1
  /\ BR.success_count + BR.failure_count < BR.total_documents

\* ------------------------------------------------------------------------
\* C29  fields the pre-screen penalises and slots the assembler leaves out
\* ------------------------------------------------------------------------
\* the mapping with the key set to a value
WithKey(data, key, value) ==
  [k \in DOMAIN data \cup {key} |-> IF k = key THEN value ELSE data[k]]

\* the pre-screen counts the key as missing: a non-empty value without
\* risk in its place lowers the score by the penalty of a missing field.
\* (A risky value in its place carries 0.3 or more.)
Penalised(data, key) ==
  KycRiskScore(data) - KycRiskScore(WithKey(data, key, Some(s_NA)))
    = MISSING_FIELD_PENALTY

\* "null", "none" or "n/a" in any casing
IsPlaceholderText(s) ==
  \/ SameIgnoringCase(s, <<"n", "u", "l", "l">>)
  \/ SameIgnoringCase(s, <<"n", "o", "n", "e">>)
  \/ SameIgnoringCase(s, <<"n", "/", "a">>)

HoldsPlaceholder(data, key) ==
  Held(data, key) /\ IsPlaceholderText(data[key][1])

CriticalNames == {KYC_CRITICAL_FIELDS[i] : i \in 1..Len(KYC_CRITICAL_FIELDS)}

\* C29: in the result of the KYC assembler every critical field the
\* pre-screen penalises as missing has an absent slot; a critical field
\* for which the oracle gave a placeholder string has an absent slot too
\* and is not penalised.
C29_PenalisedFieldsHaveAbsentSlots ==
  KycProcessCalled =>
    \A key \in CriticalNames :
       /\ Penalised(OracleMapping, key) <=> ~Held(OracleMapping, key)
       /\ Penalised(OracleMapping, key) => helper_ret[1][key] = None
       /\ HoldsPlaceholder(OracleMapping, key) =>
            /\ helper_ret[1][key] = None
            /\ ~Penalised(OracleMapping, key)

\* the oracle gave "N/A" for source_of_funds and no customer_name: both
\* slots are absent, the name alone is penalised
C29_Witness ==
  /\ KycProcessCalled
  /\ HoldsPlaceholder(OracleMapping, "source_of_funds")
  /\ helper_ret[1].source_of_funds = None
  /\ ~Penalised(OracleMapping, "source_of_funds")
  /\ Penalised(OracleMapping, "customer_name")
  /\ helper_ret[1].customer_name = None
  /\ {k \in CriticalNames : Penalised(OracleMapping, k)} = {"customer_name"}

\* ------------------------------------------------------------------------
\* C30  the countries of the pre-screen and of the validator
\* ------------------------------------------------------------------------
\* both screenings of the customer are finished
Screened == Done /\ RatingCalled

Country == Strip(ValueOf("nationality"))

\* the validator's jurisdiction check failed
JurisdictionFailed == 4 \in IndexesOf(R.checks_failed)

JurisdictionFlagged ==
  InSeq("FATF_HIGH_RISK", R.flags) \/ InSeq("FATF_MONITORING", R.flags)

\* the score of the pre-screen without the increment and the doubling a
\* high-risk country brings
ScoreApartFromCountry ==
  LET data == helper_call[1].kyc_data
      job == IF data["occupation"][1] = s_CasinoManager THEN 30 ELSE 0
  IN IF "politically_exposed" \in DOMAIN data THEN job * 2 + 30 ELSE job

\* the pre-screen added 0.4 for the country
PreScreenAdded ==
  LET data == helper_call[1].kyc_data
  IN helper_ret[1].risk_score - ScoreApartFromCountry
       = (IF "politically_exposed" \in DOMAIN data THEN 80 ELSE 40)

PreScreenAddedNothing == helper_ret[1].risk_score = ScoreApartFromCountry

\* C30: the pre-screen adds 0.4 for Somalia while the validator's
\* jurisdiction check passes it without a flag; the validator fails
\* Nigeria, Haiti and the Philippines while the pre-screen adds nothing,
\* so that a jurisdiction failure can come with the rating low. On every
\* other country the two agree.
C30_CountryListsDiverge ==
  Screened =>
    /\ PreScreenAdded \/ PreScreenAddedNothing
    /\ JurisdictionFailed <=> JurisdictionFlagged
    /\ (PreScreenAdded /\ ~JurisdictionFailed) <=> Country = s_Somalia
    /\ (JurisdictionFailed /\ PreScreenAddedNothing)
         <=> Country \in {s_Nigeria, s_Haiti, s_Philippines}
    /\ (Country \in {s_Nigeria, s_Haiti, s_Philippines}
          /\ ScoreApartFromCountry = 0) => helper_ret[1].rating = "low"

\* an engineer from Somalia: the pre-screen rates high, the validator passes
C30_Witness ==
  /\ Screened
  /\ Country = s_Somalia
  /\ helper_ret[1].risk_score = 40
  /\ helper_ret[1].rating = "high"
  /\ R.flags = <<>>
  /\ R.status = "passed"

\* an engineer from Nigeria: the validator fails the jurisdiction check,
\* the pre-screen rates low
C30_NigeriaReached ==
  /\ Screened
  /\ Country = s_Nigeria
  /\ JurisdictionFailed
  /\ R.flags = <<"FATF_MONITORING">>
  /\ helper_ret[1].risk_score = 0
  /\ helper_ret[1].rating = "low"

====
